---- MODULE Spec2Model ----
(***************************************************************************)
(* Model of opencode-damage-control: the pattern matcher, the protected-   *)
(* path classifier and the shell operation classifier of src/patterns.ts,  *)
(* and the two plugin hooks of src/index.ts.                               *)
(*                                                                         *)
(* Strings are TLA+ strings (sequences of characters); a character is a    *)
(* string of length one.  Regular expressions are syntax trees evaluated   *)
(* by a backtracking matcher with the priorities of the JavaScript engine. *)
(***************************************************************************)
EXTENDS Naturals, Integers, Sequences, FiniteSets, TLC

VARIABLES
  HOME,         \* process.env.HOME ("" when unset)
  pc,           \* "start" / "done" of a function application; "idle" for the plugin
  fn,           \* the exported function applied, or "plugin"
  args,         \* its arguments
  ret,          \* its result
  pendingAsks,  \* index.ts: Map callID -> PendingAsk
  call,         \* the last hook invocation and its outcome
  files,        \* the configuration files on disk: path -> parsed content
  heap          \* the objects applyConfig works on; a reference is an index

vars == <<HOME, pc, fn, args, ret, pendingAsks, call, files, heap>>

\* The JavaScript null / undefined result.
NULL == [null |-> TRUE]

-----------------------------------------------------------------------------
\* String primitives of the JavaScript runtime

At(s, i) == SubSeq(s, i, i)

\* s.includes(sub)
Includes(s, sub) ==
  \E i \in 1..(Len(s) + 1) :
    i + Len(sub) - 1 <= Len(s) /\ SubSeq(s, i, i + Len(sub) - 1) = sub

\* s.indexOf(sub), 1-based; 0 when absent
IndexOf(s, sub) ==
  LET hits == { i \in 1..(Len(s) + 1) :
                  i + Len(sub) - 1 <= Len(s) /\ SubSeq(s, i, i + Len(sub) - 1) = sub }
  IN  IF hits = {} THEN 0 ELSE CHOOSE i \in hits : \A j \in hits : i <= j

\* s.lastIndexOf(ch) for a one-character ch, 1-based; 0 when absent
LastIndexOf(s, ch) ==
  LET hits == { i \in 1..Len(s) : At(s, i) = ch }
  IN  IF hits = {} THEN 0 ELSE CHOOSE i \in hits : \A j \in hits : j <= i

\* s.replace(sub, by) with a string pattern: only the first occurrence,
\* wherever it is, is replaced.
ReplaceFirst(s, sub, by) ==
  LET i == IndexOf(s, sub)
  IN  IF i = 0 THEN s
      ELSE SubSeq(s, 1, i - 1) \o by \o SubSeq(s, i + Len(sub), Len(s))

-----------------------------------------------------------------------------
\* Character classes of the regular expression engine

Lowers == {"a","b","c","d","e","f","g","h","i","j","k","l","m",
           "n","o","p","q","r","s","t","u","v","w","x","y","z"}
Uppers == {"A","B","C","D","E","F","G","H","I","J","K","L","M",
           "N","O","P","Q","R","S","T","U","V","W","X","Y","Z"}
Digits == {"0","1","2","3","4","5","6","7","8","9"}

\* \s
SpaceChars == {" ", "\t", "\n", "\r", "\f"}
\* \w
WordChars == Lowers \cup Uppers \cup Digits \cup {"_"}
\* line terminators, which . does not match
LineTerminators == {"\n", "\r"}

ToLower(c) ==
  CASE c = "A" -> "a" [] c = "B" -> "b" [] c = "C" -> "c" [] c = "D" -> "d"
    [] c = "E" -> "e" [] c = "F" -> "f" [] c = "G" -> "g" [] c = "H" -> "h"
    [] c = "I" -> "i" [] c = "J" -> "j" [] c = "K" -> "k" [] c = "L" -> "l"
    [] c = "M" -> "m" [] c = "N" -> "n" [] c = "O" -> "o" [] c = "P" -> "p"
    [] c = "Q" -> "q" [] c = "R" -> "r" [] c = "S" -> "s" [] c = "T" -> "t"
    [] c = "U" -> "u" [] c = "V" -> "v" [] c = "W" -> "w" [] c = "X" -> "x"
    [] c = "Y" -> "y" [] c = "Z" -> "z" [] OTHER -> c

-----------------------------------------------------------------------------
(* Regular expression syntax trees                                         *)
(*   Lit(c)      the character c                                           *)
(*   AnyChar     .                                                         *)
(*   Cls(S)      a character of the set S       NotCls(S)   [^...]         *)
(*   Bol, Eol    ^ and $        WordB           \b                         *)
(*   Cat(xs)     concatenation  Alt(xs)         alternation, in order      *)
(*   Star(x), Plus(x), Opt(x)   greedy x*, x+, x?                          *)

Lit(c)    == [t |-> "lit", c |-> c]
AnyChar   == [t |-> "any"]
Cls(S)    == [t |-> "cls", S |-> S]
NotCls(S) == [t |-> "ncls", S |-> S]
Bol       == [t |-> "bol"]
Eol       == [t |-> "eol"]
WordB     == [t |-> "wordb"]
Cat(xs)   == [t |-> "cat", xs |-> xs]
Alt(xs)   == [t |-> "alt", xs |-> xs]
Star(x)   == [t |-> "star", x |-> x]
Plus(x)   == [t |-> "cat", xs |-> <<x, [t |-> "star", x |-> x]>>]
Opt(x)    == [t |-> "alt", xs |-> <<x, [t |-> "cat", xs |-> <<>>]>>]
\* internal: the iteration of a star that started at position p must have
\* consumed a character before the star is tried again
Progress(p, x) == [t |-> "progress", p |-> p, x |-> x]

\* the literal word w, character by character
RECURSIVE Word(_)
Word(w) == IF w = "" THEN <<>> ELSE <<Lit(Head(w))>> \o Word(Tail(w))

\* the nodes that consume exactly one character
CharNodes == {"lit", "any", "cls", "ncls"}

IsWordAt(s, i) == i >= 1 /\ i <= Len(s) /\ At(s, i) \in WordChars

\* does the one-character node x accept the character c
AcceptsChar(x, c, ci) ==
  CASE x.t = "lit"  -> IF ci THEN ToLower(c) = ToLower(x.c) ELSE c = x.c
    [] x.t = "any"  -> c \notin LineTerminators
    [] x.t = "cls"  -> c \in x.S \/ (ci /\ ToLower(c) \in { ToLower(d) : d \in x.S })
    [] x.t = "ncls" -> ~(c \in x.S \/ (ci /\ ToLower(c) \in { ToLower(d) : d \in x.S }))
    [] OTHER        -> FALSE

\* the number of consecutive characters from position pos that x accepts
RunLen(x, s, pos, ci) ==
  CHOOSE k \in 0..(Len(s) + 1 - pos) :
    /\ \A j \in 0..(k - 1) : AcceptsChar(x, At(s, pos + j), ci)
    /\ (pos + k <= Len(s) => ~AcceptsChar(x, At(s, pos + k), ci))

\* Backtracking match of the node list `nodes` (the continuation) against s
\* starting at position pos.  Returns the position after the match chosen
\* by the engine's priorities (greedy quantifiers, alternatives left to
\* right), or 0 when there is no match.
RECURSIVE MatchAt(_, _, _, _)
MatchAt(nodes, s, pos, ci) ==
  IF nodes = <<>> THEN pos
  ELSE
    LET x    == Head(nodes)
        rest == Tail(nodes)
    IN CASE x.t \in CharNodes ->
              IF pos <= Len(s) /\ AcceptsChar(x, At(s, pos), ci)
              THEN MatchAt(rest, s, pos + 1, ci) ELSE 0
         [] x.t = "bol"   -> IF pos = 1 THEN MatchAt(rest, s, pos, ci) ELSE 0
         [] x.t = "eol"   -> IF pos = Len(s) + 1 THEN MatchAt(rest, s, pos, ci) ELSE 0
         [] x.t = "wordb" ->
              IF IsWordAt(s, pos - 1) # IsWordAt(s, pos)
              THEN MatchAt(rest, s, pos, ci) ELSE 0
         [] x.t = "cat"   -> MatchAt(x.xs \o rest, s, pos, ci)
         [] x.t = "alt"   ->
              IF x.xs = <<>> THEN 0
              ELSE LET r == MatchAt(<<Head(x.xs)>> \o rest, s, pos, ci)
                   IN  IF r # 0 THEN r
                       ELSE MatchAt(<<Alt(Tail(x.xs))>> \o rest, s, pos, ci)
         [] x.t = "star" /\ x.x.t \in CharNodes ->
              \* greedy: the longest run of the character after which the
              \* rest matches
              LET n  == RunLen(x.x, s, pos, ci)
                  ok == { c \in 0..n : MatchAt(rest, s, pos + c, ci) # 0 }
              IN  IF ok = {} THEN 0
                  ELSE MatchAt(rest, s, pos + (CHOOSE c \in ok : \A d \in ok : d <= c), ci)
         [] x.t = "star" /\ x.x.t \notin CharNodes ->
              LET r == MatchAt(<<x.x, Progress(pos, x)>> \o rest, s, pos, ci)
              IN  IF r # 0 THEN r ELSE MatchAt(rest, s, pos, ci)
         [] x.t = "progress" ->
              IF pos = x.p THEN 0 ELSE MatchAt(<<x.x>> \o rest, s, pos, ci)

\* regex.exec(s): the leftmost match, as [index, text], or NULL
RegExpExec(re, s, ci) ==
  LET starts == { i \in 1..(Len(s) + 1) : MatchAt(<<re>>, s, i, ci) # 0 }
  IN  IF starts = {} THEN NULL
      ELSE LET i == CHOOSE k \in starts : \A j \in starts : k <= j
           IN  [index |-> i, text |-> SubSeq(s, i, MatchAt(<<re>>, s, i, ci) - 1)]

\* regex.test(s)
RegExpTest(re, s, ci) == \E i \in 1..(Len(s) + 1) : MatchAt(<<re>>, s, i, ci) # 0

-----------------------------------------------------------------------------
\* new RegExp(source): the pattern sources of the model are those of the
\* grammar  item ::= atom | atom+ | atom* | atom?  with
\* atom ::= character | . | ^ | $ | \s | \S | \w | \W | \d | \b | \character.
\* A source with a bare ( ) [ ] { } |, with a quantifier that has nothing
\* to repeat or with a trailing backslash is rejected (SyntaxError).

Quantifiers == {"+", "*", "?"}
Brackets    == {"(", ")", "[", "]", "{", "}", "|"}

EscapeAtom(c) ==
  CASE c = "s" -> Cls(SpaceChars)
    [] c = "S" -> NotCls(SpaceChars)
    [] c = "w" -> Cls(WordChars)
    [] c = "W" -> NotCls(WordChars)
    [] c = "d" -> Cls(Digits)
    [] c = "b" -> WordB
    [] OTHER   -> Lit(c)

PlainAtom(c) ==
  CASE c = "." -> AnyChar
    [] c = "^" -> Bol
    [] c = "$" -> Eol
    [] OTHER   -> Lit(c)

Quantified(atom, q) ==
  CASE q = "+" -> Plus(atom)
    [] q = "*" -> Star(atom)
    [] q = "?" -> Opt(atom)
    [] OTHER   -> atom

RECURSIVE ParseItems(_, _)
ParseItems(src, i) ==
  IF i > Len(src) THEN [ok |-> TRUE, xs |-> <<>>]
  ELSE
    LET c      == At(src, i)
        esc    == c = "\\"
        alen   == IF esc THEN 2 ELSE 1
        atomOk == IF esc THEN i + 1 <= Len(src)
                  ELSE c \notin (Quantifiers \cup Brackets)
        atom   == IF esc THEN EscapeAtom(At(src, i + 1)) ELSE PlainAtom(c)
        q      == IF i + alen <= Len(src) THEN At(src, i + alen) ELSE ""
        next   == i + alen + (IF q \in Quantifiers THEN 1 ELSE 0)
    IN  IF ~atomOk THEN [ok |-> FALSE, xs |-> <<>>]
        ELSE LET r == ParseItems(src, next)
             IN  [ok |-> r.ok, xs |-> <<Quantified(atom, q)>> \o r.xs]

\* does new RegExp(src) succeed
RegExpCompiles(src) == ParseItems(src, 1).ok

\* the compiled expression of a source that compiles
RegExpOf(src) == Cat(ParseItems(src, 1).xs)

-----------------------------------------------------------------------------
\* src/patterns.ts: helpers

\* a thrown exception, as the result of a call
Throw(msg) == [throw |-> msg]

\* a scan that lets a later matching rule override an earlier one
RECURSIVE matchPatternFromLast(_, _, _)
matchPatternFromLast(command, patterns, i) ==
  IF i > Len(patterns) THEN NULL
  ELSE
    LET p     == patterns[i]
        later == matchPatternFromLast(command, patterns, i + 1)
    IN  IF later # NULL THEN later
        ELSE LET m == RegExpExec(RegExpOf(p.pattern), command, TRUE)
             IN  IF m # NULL
                 THEN [match   |-> IF m.text # "" THEN m.text ELSE p.pattern,
                       pattern |-> p]
                 ELSE NULL

\* matchPattern: the scan of the rules i, i+1, ... of the list
RECURSIVE matchPatternFrom(_, _, _)
matchPatternFrom(command, patterns, i) ==
  IF i > Len(patterns) THEN NULL
  ELSE
    LET p == patterns[i]
    IN  IF ~RegExpCompiles(p.pattern) THEN Throw("SyntaxError")
        ELSE LET m == RegExpExec(RegExpOf(p.pattern), command, TRUE)
             IN  IF m # NULL
                 THEN [match   |-> IF m.text # "" THEN m.text ELSE p.pattern,
                       pattern |-> p]
                 ELSE matchPatternFrom(command, patterns, i + 1)

matchPattern(command, patterns) == matchPatternFrom(command, patterns, 1)

\* the characters globToRegex escapes: [.+^${}()|[\]\\]
GlobEscaped == {".", "+", "^", "$", "{", "}", "(", ")", "|", "[", "]", "\\"}

\* glob.replace(/[.+^${}()|[\]\\]/g, '\\$&')
RECURSIVE EscapeMeta(_)
EscapeMeta(glob) ==
  IF glob = "" THEN ""
  ELSE (IF Head(glob) \in GlobEscaped THEN "\\" \o Head(glob) ELSE Head(glob))
         \o EscapeMeta(Tail(glob))

\* escaped.replace(/\*/g, '.*')
RECURSIVE StarToDotStar(_)
StarToDotStar(escaped) ==
  IF escaped = "" THEN ""
  ELSE (IF Head(escaped) = "*" THEN ".*" ELSE Head(escaped))
         \o StarToDotStar(Tail(escaped))

\* the source of the expression globToRegex compiles (without flags)
globSource(glob) == "^" \o StarToDotStar(EscapeMeta(glob)) \o "$"

globToRegex(glob) == RegExpOf(globSource(glob))

isGlobPattern(path) == Includes(path, "*")

\* filePath.replace(/\/+$/, '')
TrimSlashes(filePath) ==
  LET n == CHOOSE k \in 0..Len(filePath) :
             /\ \A j \in (k + 1)..Len(filePath) : At(filePath, j) = "/"
             /\ (k >= 1 => At(filePath, k) # "/")
  IN  SubSeq(filePath, 1, n)

basename(filePath) ==
  LET trimmed == TrimSlashes(filePath)
      idx     == LastIndexOf(trimmed, "/")
  IN  IF idx = 0 THEN trimmed ELSE SubSeq(trimmed, idx + 1, Len(trimmed))

\* p.replace('~', home), with home = process.env.HOME || ''
expandHomeIn(home, p) == ReplaceFirst(p, "~", home)

expandHome(p) == expandHomeIn(HOME, p)

\* does the rule p match filePath (the body of checkPathProtection's loop)
pathRuleMatches(home, filePath, p) ==
  IF isGlobPattern(p.path)
  THEN RegExpTest(globToRegex(p.path), basename(filePath), FALSE)
  ELSE Includes(filePath, expandHomeIn(home, p.path)) \/ Includes(filePath, p.path)

\* a scan that prefers the matching rule with the longest path (the most
\* specific one) to the first one
checkPathProtectionMostSpecific(home, filePath, protectedPaths, i) ==
  LET M == { k \in i..Len(protectedPaths) :
               pathRuleMatches(home, filePath, protectedPaths[k]) }
  IN  IF M = {} THEN NULL
      ELSE protectedPaths[CHOOSE k \in M :
             \A j \in M : \/ Len(protectedPaths[k].path) > Len(protectedPaths[j].path)
                          \/ /\ Len(protectedPaths[k].path) = Len(protectedPaths[j].path)
                             /\ k <= j]

RECURSIVE checkPathProtectionFrom(_, _, _, _)
checkPathProtectionFrom(home, filePath, protectedPaths, i) ==
  IF i > Len(protectedPaths) THEN NULL
  ELSE IF pathRuleMatches(home, filePath, protectedPaths[i]) THEN protectedPaths[i]
  ELSE checkPathProtectionFrom(home, filePath, protectedPaths, i + 1)

checkPathProtectionIn(home, filePath, protectedPaths) ==
  checkPathProtectionFrom(home, filePath, protectedPaths, 1)

checkPathProtection(filePath, protectedPaths) ==
  checkPathProtectionIn(HOME, filePath, protectedPaths)

-----------------------------------------------------------------------------
\* src/patterns.ts: shell operation classifiers

Sp    == Cls(SpaceChars)
Redir == Alt(<<Lit(">"), Cat(<<Lit(">"), Lit(">")>>)>>)

SHELL_WRITE_OPS == <<
  \* /(?:^|[;&|]\s*)(?:>|>>)\s*/
  Cat(<<Alt(<<Bol, Cat(<<Cls({";", "&", "|"}), Star(Sp)>>)>>), Redir, Star(Sp)>>),
  \* /\btee\s+(?:-a\s+)?/
  Cat(<<WordB>> \o Word("tee") \o <<Plus(Sp), Opt(Cat(<<Lit("-"), Lit("a"), Plus(Sp)>>))>>),
  \* /\bsed\s+(-[^\s]*\s+)*-i/
  Cat(<<WordB>> \o Word("sed") \o
      <<Plus(Sp), Star(Cat(<<Lit("-"), Star(NotCls(SpaceChars)), Plus(Sp)>>)),
        Lit("-"), Lit("i")>>),
  RegExpOf("\\bsed\\s+--in-place"),
  RegExpOf("\\bcp\\s+"),
  RegExpOf("\\bmv\\s+"),
  RegExpOf("\\bchmod\\s+"),
  RegExpOf("\\bchown\\s+"),
  RegExpOf("\\bln\\s+"),
  RegExpOf("\\binstall\\s+"),
  RegExpOf("\\bpatch\\s+"),
  RegExpOf("\\btruncate\\s+"),
  RegExpOf("\\bdd\\s+"),
  RegExpOf("\\btouch\\s+"),
  RegExpOf("\\bmkdir\\s+"),
  \* /\becho\s+.*(?:>|>>)\s*/
  Cat(<<WordB>> \o Word("echo") \o <<Plus(Sp), Star(AnyChar), Redir, Star(Sp)>>),
  \* /\bprintf\s+.*(?:>|>>)\s*/
  Cat(<<WordB>> \o Word("printf") \o <<Plus(Sp), Star(AnyChar), Redir, Star(Sp)>>),
  \* /\bcat\s+.*(?:>|>>)\s*/
  Cat(<<WordB>> \o Word("cat") \o <<Plus(Sp), Star(AnyChar), Redir, Star(Sp)>>)
>>

SHELL_DELETE_OPS == <<
  RegExpOf("\\brm\\s+"),
  RegExpOf("\\bunlink\\s+"),
  RegExpOf("\\brmdir\\s+"),
  RegExpOf("\\bshred\\s+")
>>

\* command.split(/\s+/)
RECURSIVE SplitSpaces(_)
SplitSpaces(command) ==
  LET spaces == { i \in 1..Len(command) : At(command, i) \in SpaceChars }
  IN  IF spaces = {} THEN <<command>>
      ELSE LET i == CHOOSE k \in spaces : \A j \in spaces : k <= j
               n == RunLen(Sp, command, i, FALSE)
           IN  <<SubSeq(command, 1, i - 1)>>
                 \o SplitSpaces(SubSeq(command, i + n, Len(command)))

commandReferencesPathIn(home, command, protPath) ==
  IF isGlobPattern(protPath)
  THEN LET tokens == SplitSpaces(command)
       IN  \E k \in 1..Len(tokens) :
             /\ basename(tokens[k]) # ""
             /\ RegExpTest(globToRegex(protPath), basename(tokens[k]), FALSE)
  ELSE Includes(command, expandHomeIn(home, protPath)) \/ Includes(command, protPath)

commandReferencesPath(command, protPath) ==
  commandReferencesPathIn(HOME, command, protPath)

\* some operator of the catalogue is found in the command
AnyOpTest(ops, command) == \E k \in 1..Len(ops) : RegExpTest(ops[k], command, FALSE)

isShellWriteIn(home, command, protPath) ==
  IF ~commandReferencesPathIn(home, command, protPath) THEN FALSE
  ELSE AnyOpTest(SHELL_WRITE_OPS, command)

isShellWrite(command, protPath) == isShellWriteIn(HOME, command, protPath)

isShellDeleteIn(home, command, protPath) ==
  IF ~commandReferencesPathIn(home, command, protPath) THEN FALSE
  ELSE AnyOpTest(SHELL_DELETE_OPS, command)

isShellDelete(command, protPath) == isShellDeleteIn(HOME, command, protPath)

\* the switch with zeroAccess handled like readOnly: only writes and deletes
\* violate
ruleViolationZeroAsReadOnly(home, command, p) ==
  CASE p.level \in {"zeroAccess", "readOnly"} ->
         IF isShellWriteIn(home, command, p.path)
         THEN [protectedPath |-> p, operation |-> "write"]
         ELSE IF isShellDeleteIn(home, command, p.path)
         THEN [protectedPath |-> p, operation |-> "delete"] ELSE NULL
    [] p.level = "noDelete" ->
         IF isShellDeleteIn(home, command, p.path)
         THEN [protectedPath |-> p, operation |-> "delete"] ELSE NULL
    [] OTHER -> NULL

\* the switch with the readOnly case testing delete before write
ruleViolationDeleteFirst(home, command, p) ==
  CASE p.level = "zeroAccess" ->
         IF commandReferencesPathIn(home, command, p.path)
         THEN [protectedPath |-> p, operation |-> "access"] ELSE NULL
    [] p.level = "readOnly" ->
         IF isShellDeleteIn(home, command, p.path)
         THEN [protectedPath |-> p, operation |-> "delete"]
         ELSE IF isShellWriteIn(home, command, p.path)
         THEN [protectedPath |-> p, operation |-> "write"] ELSE NULL
    [] p.level = "noDelete" ->
         IF isShellDeleteIn(home, command, p.path)
         THEN [protectedPath |-> p, operation |-> "delete"] ELSE NULL
    [] OTHER -> NULL

\* the switch with the readOnly case falling through into noDelete's: a
\* noDelete rule is violated by writes too
ruleViolationNoDeleteAsReadOnly(home, command, p) ==
  CASE p.level = "zeroAccess" ->
         IF commandReferencesPathIn(home, command, p.path)
         THEN [protectedPath |-> p, operation |-> "access"] ELSE NULL
    [] p.level \in {"readOnly", "noDelete"} ->
         IF isShellWriteIn(home, command, p.path)
         THEN [protectedPath |-> p, operation |-> "write"]
         ELSE IF isShellDeleteIn(home, command, p.path)
         THEN [protectedPath |-> p, operation |-> "delete"] ELSE NULL
    [] OTHER -> NULL

\* the switch on p.level in checkShellPathViolation: the violation of the
\* single rule p, or NULL
ruleViolation(home, command, p) ==
  CASE p.level = "zeroAccess" ->
         IF commandReferencesPathIn(home, command, p.path)
         THEN [protectedPath |-> p, operation |-> "access"] ELSE NULL
    [] p.level = "readOnly" ->
         IF isShellWriteIn(home, command, p.path)
         THEN [protectedPath |-> p, operation |-> "write"]
         ELSE IF isShellDeleteIn(home, command, p.path)
         THEN [protectedPath |-> p, operation |-> "delete"] ELSE NULL
    [] p.level = "noDelete" ->
         IF isShellDeleteIn(home, command, p.path)
         THEN [protectedPath |-> p, operation |-> "delete"] ELSE NULL
    [] OTHER -> NULL

\* a scan that ends at the first rule whose path the command references,
\* violated or not
RECURSIVE checkShellPathViolationStopAtReferenced(_, _, _, _)
checkShellPathViolationStopAtReferenced(home, command, protectedPaths, i) ==
  IF i > Len(protectedPaths) THEN NULL
  ELSE IF commandReferencesPathIn(home, command, protectedPaths[i].path)
  THEN ruleViolation(home, command, protectedPaths[i])
  ELSE checkShellPathViolationStopAtReferenced(home, command, protectedPaths, i + 1)

RECURSIVE checkShellPathViolationFrom(_, _, _, _)
checkShellPathViolationFrom(home, command, protectedPaths, i) ==
  IF i > Len(protectedPaths) THEN NULL
  ELSE LET v == ruleViolation(home, command, protectedPaths[i])
       IN  IF v # NULL THEN v
           ELSE checkShellPathViolationFrom(home, command, protectedPaths, i + 1)

checkShellPathViolationIn(home, command, protectedPaths) ==
  checkShellPathViolationFrom(home, command, protectedPaths, 1)

checkShellPathViolation(command, protectedPaths) ==
  checkShellPathViolationIn(HOME, command, protectedPaths)

-----------------------------------------------------------------------------
\* src/patterns.ts: the built-in rule lists.  The model keeps a selection of
\* the entries, in their order of the source; for every command and file
\* path of the model the first matching entry of the selection is the first
\* matching entry of the full list.

DEFAULT_PATTERNS == <<
  [pattern |-> "rm\\s+-rf\\s+/", reason |-> "Recursive delete from root", action |-> "block"],
  [pattern |-> "DROP\\s+TABLE", reason |-> "SQL DROP TABLE", action |-> "block"],
  [pattern |-> "git\\s+reset\\s+--hard", reason |-> "git reset --hard (use --soft or stash)", action |-> "ask"],
  [pattern |-> "sudo\\s+rm\\b", reason |-> "sudo rm", action |-> "block"],
  [pattern |-> "history\\s+-c", reason |-> "Clear shell history", action |-> "ask"]
>>

DEFAULT_PROTECTED_PATHS == <<
  [path |-> "~/.ssh", level |-> "zeroAccess"],
  [path |-> "/etc/passwd", level |-> "zeroAccess"],
  [path |-> "*.pem", level |-> "zeroAccess"],
  [path |-> "/etc/", level |-> "readOnly"],
  [path |-> "~/.bashrc", level |-> "readOnly"],
  [path |-> "LICENSE*", level |-> "noDelete"],
  [path |-> ".gitignore", level |-> "noDelete"]
>>

-----------------------------------------------------------------------------
\* src/config.ts: values as JSON.parse returns them.  A string is [str |-> s],
\* a number [num |-> n], a boolean [bool |-> b], null is NULL, an array
\* [arr |-> <<v1, ...>>], an object [obj |-> <<[k |-> key, v |-> value], ...>>]
\* with its own keys in insertion order, each key once.

JStr(s)   == [str |-> s]
JNum(n)   == [num |-> n]
JBool(b)  == [bool |-> b]
JArr(xs)  == [arr |-> xs]
JObj(kvs) == [obj |-> kvs]

\* the value of a property the object does not have
undefined == [undefined |-> TRUE]

\* typeof v === 'string'
isString(v) == "str" \in DOMAIN v

\* Array.isArray(v)
isArray(v) == "arr" \in DOMAIN v

isObject(v) == "obj" \in DOMAIN v

\* o[key], o an object
Get(o, key) ==
  IF \E i \in 1..Len(o.obj) : o.obj[i].k = key
  THEN o.obj[CHOOSE i \in 1..Len(o.obj) : o.obj[i].k = key].v
  ELSE undefined

\* Object.keys(o)
ObjectKeys(o) == [i \in 1..Len(o.obj) |-> o.obj[i].k]

\* String(n) for a natural number
RECURSIVE ToStr(_)
ToStr(n) ==
  IF n < 10 THEN SubSeq("0123456789", n + 1, n + 1)
  ELSE ToStr(n \div 10) \o ToStr(n % 10)

\* `${val}` in a template literal
RECURSIVE StringOf(_)
StringOf(v) ==
  CASE isString(v)           -> v.str
    [] "num" \in DOMAIN v    -> ToStr(v.num)
    [] "bool" \in DOMAIN v   -> IF v.bool THEN "true" ELSE "false"
    [] v = NULL              -> "null"
    [] v = undefined         -> "undefined"
    [] isObject(v)           -> "[object Object]"
    [] isArray(v)            ->
         IF Len(v.arr) = 0 THEN ""
         ELSE LET h == IF Head(v.arr) \in {NULL, undefined} THEN ""
                       ELSE StringOf(Head(v.arr))
              IN  IF Len(v.arr) = 1 THEN h
                  ELSE h \o "," \o StringOf(JArr(Tail(v.arr)))

\* JSON.stringify(key), key a string of printable characters
RECURSIVE JsonEscape(_)
JsonEscape(key) ==
  IF key = "" THEN ""
  ELSE (IF Head(key) \in {"\"", "\\"} THEN "\\" \o Head(key) ELSE Head(key))
         \o JsonEscape(Tail(key))

JsonStringify(key) == "\"" \o JsonEscape(key) \o "\""

VALID_ACTIONS == {"block", "ask"}
VALID_LEVELS  == {"zeroAccess", "readOnly", "noDelete", "none"}

\* VALID_ACTIONS.has(v) / VALID_LEVELS.has(v)
SetHas(S, v) == isString(v) /\ v.str \in S

isValidPattern(v) ==
  /\ isObject(v)
  /\ isString(Get(v, "pattern"))
  /\ isString(Get(v, "reason"))
  /\ SetHas(VALID_ACTIONS, Get(v, "action"))

\* a check that takes every level of VALID_LEVELS, 'none' too
isValidProtectedPathAllowNone(v) ==
  /\ isObject(v)
  /\ isString(Get(v, "path"))
  /\ SetHas(VALID_LEVELS, Get(v, "level"))

isValidProtectedPath(v) ==
  /\ isObject(v)
  /\ isString(Get(v, "path"))
  /\ SetHas(VALID_LEVELS, Get(v, "level"))
  /\ Get(v, "level") # JStr("none")

\* a valid element of patterns.add as a Pattern (the fields the plugin reads)
AsPattern(v) ==
  [pattern |-> Get(v, "pattern").str, reason |-> Get(v, "reason").str,
   action |-> Get(v, "action").str]

\* a valid element of paths.add as a ProtectedPath
AsProtectedPath(v) == [path |-> Get(v, "path").str, level |-> Get(v, "level").str]

\* validateConfig treats "patterns" and "paths" alike; section names which
NeededFields(section) ==
  IF section = "patterns" THEN "pattern, reason, action" ELSE "path, level"

OverrideWord(section) == IF section = "patterns" THEN "action" ELSE "level"

OverrideValues(section) == IF section = "patterns" THEN VALID_ACTIONS ELSE VALID_LEVELS

\* a loop that gives up at the first invalid element
RECURSIVE validateAddFromStopAtInvalid(_, _, _, _)
validateAddFromStopAtInvalid(add, source, section, i) ==
  IF i > Len(add) THEN [valid |-> <<>>, warnings |-> <<>>]
  ELSE IF (IF section = "patterns" THEN isValidPattern(add[i])
                                   ELSE isValidProtectedPath(add[i]))
  THEN [valid |-> <<IF section = "patterns" THEN AsPattern(add[i])
                                            ELSE AsProtectedPath(add[i])>>
                    \o validateAddFromStopAtInvalid(add, source, section, i + 1).valid,
        warnings |-> validateAddFromStopAtInvalid(add, source, section, i + 1).warnings]
  ELSE [valid |-> <<>>,
        warnings |-> <<source \o ": \"" \o section \o ".add[" \o ToStr(i - 1)
                         \o "]\" is invalid (need " \o NeededFields(section)
                         \o "), skipping">>]

\* the loop over p.add from its element i on (i counts from 1, the
\* warnings from 0)
RECURSIVE validateAddFrom(_, _, _, _)
validateAddFrom(add, source, section, i) ==
  IF i > Len(add) THEN [valid |-> <<>>, warnings |-> <<>>]
  ELSE IF (IF section = "patterns" THEN isValidPattern(add[i])
                                   ELSE isValidProtectedPath(add[i]))
  THEN [valid |-> <<IF section = "patterns" THEN AsPattern(add[i])
                                            ELSE AsProtectedPath(add[i])>>
                    \o validateAddFrom(add, source, section, i + 1).valid,
        warnings |-> validateAddFrom(add, source, section, i + 1).warnings]
  ELSE [valid |-> validateAddFrom(add, source, section, i + 1).valid,
        warnings |-> <<source \o ": \"" \o section \o ".add[" \o ToStr(i - 1)
                         \o "]\" is invalid (need " \o NeededFields(section)
                         \o "), skipping">>
                     \o validateAddFrom(add, source, section, i + 1).warnings]

\* p.remove.filter((v) => typeof v === 'string')
RECURSIVE FilterStrings(_)
FilterStrings(xs) ==
  IF xs = <<>> THEN <<>>
  ELSE (IF isString(Head(xs)) THEN <<Head(xs).str>> ELSE <<>>) \o FilterStrings(Tail(xs))

\* a loop that skips an invalid entry without a warning
RECURSIVE validateOverrideFromSilent(_, _, _, _)
validateOverrideFromSilent(entries, source, section, i) ==
  IF i > Len(entries) THEN [valid |-> <<>>, warnings |-> <<>>]
  ELSE IF SetHas(OverrideValues(section), entries[i].v)
  THEN [valid |-> <<[k |-> entries[i].k, v |-> entries[i].v.str]>>
                    \o validateOverrideFromSilent(entries, source, section, i + 1).valid,
        warnings |-> validateOverrideFromSilent(entries, source, section, i + 1).warnings]
  ELSE validateOverrideFromSilent(entries, source, section, i + 1)

\* the loop over Object.entries(p.override) from its entry i on
RECURSIVE validateOverrideFrom(_, _, _, _)
validateOverrideFrom(entries, source, section, i) ==
  IF i > Len(entries) THEN [valid |-> <<>>, warnings |-> <<>>]
  ELSE IF SetHas(OverrideValues(section), entries[i].v)
  THEN [valid |-> <<[k |-> entries[i].k, v |-> entries[i].v.str]>>
                    \o validateOverrideFrom(entries, source, section, i + 1).valid,
        warnings |-> validateOverrideFrom(entries, source, section, i + 1).warnings]
  ELSE [valid |-> validateOverrideFrom(entries, source, section, i + 1).valid,
        warnings |-> <<source \o ": \"" \o section \o ".override["
                         \o JsonStringify(entries[i].k) \o "]\" has invalid "
                         \o OverrideWord(section) \o " \"" \o StringOf(entries[i].v)
                         \o "\", skipping">>
                     \o validateOverrideFrom(entries, source, section, i + 1).warnings]

\* one field of a section: what is stored in the clean section and the
\* warnings pushed
NoField == [stored |-> <<>>, warnings |-> <<>>]

Field(key, value, warnings) ==
  [stored |-> IF Len(value) > 0 THEN key :> value ELSE <<>>, warnings |-> warnings]

validateAdd(add, source, section) ==
  IF add = undefined THEN NoField
  ELSE IF ~isArray(add)
  THEN [stored |-> <<>>,
        warnings |-> <<source \o ": \"" \o section \o ".add\" is not an array, ignoring">>]
  ELSE Field("add", validateAddFrom(add.arr, source, section, 1).valid,
             validateAddFrom(add.arr, source, section, 1).warnings)

validateRemove(remove, source, section) ==
  IF remove = undefined THEN NoField
  ELSE IF ~isArray(remove)
  THEN [stored |-> <<>>,
        warnings |-> <<source \o ": \"" \o section \o ".remove\" is not an array, ignoring">>]
  ELSE Field("remove", FilterStrings(remove.arr),
             IF Len(FilterStrings(remove.arr)) # Len(remove.arr)
             THEN <<source \o ": some \"" \o section
                      \o ".remove\" entries are not strings, skipping those">>
             ELSE <<>>)

validateOverride(override, source, section) ==
  IF override = undefined THEN NoField
  ELSE IF ~isObject(override)
  THEN [stored |-> <<>>,
        warnings |-> <<source \o ": \"" \o section \o ".override\" is not an object, ignoring">>]
  ELSE Field("override", validateOverrideFrom(override.obj, source, section, 1).valid,
             validateOverrideFrom(override.obj, source, section, 1).warnings)

\* -- patterns -- / -- paths --: p is raw.patterns or raw.paths
validateSection(p, source, section) ==
  IF p = undefined THEN NoField
  ELSE IF ~isObject(p)
  THEN [stored |-> <<>>,
        warnings |-> <<source \o ": \"" \o section \o "\" is not an object, ignoring">>]
  ELSE [stored |-> section :> (validateAdd(Get(p, "add"), source, section).stored
                               @@ validateRemove(Get(p, "remove"), source, section).stored
                               @@ validateOverride(Get(p, "override"), source, section).stored),
        warnings |-> validateAdd(Get(p, "add"), source, section).warnings
                     \o validateRemove(Get(p, "remove"), source, section).warnings
                     \o validateOverride(Get(p, "override"), source, section).warnings]

\* Warn about unknown top-level keys
RECURSIVE unknownKeyWarnings(_, _)
unknownKeyWarnings(keys, source) ==
  IF keys = <<>> THEN <<>>
  ELSE (IF Head(keys) \notin {"patterns", "paths", "$schema"}
        THEN <<source \o ": unknown key \"" \o Head(keys) \o "\", ignoring">>
        ELSE <<>>) \o unknownKeyWarnings(Tail(keys), source)

\* a DamageControlConfig is a function on a subset of {"patterns", "paths"};
\* a section is a function on a subset of {"add", "remove", "override"}; an
\* override map is the sequence of its entries [k |-> key, v |-> value]
validateConfig(raw, source) ==
  IF ~isObject(raw)
  THEN [config |-> <<>>, warnings |-> <<source \o ": config is not an object, ignoring">>]
  ELSE [config   |-> validateSection(Get(raw, "patterns"), source, "patterns").stored
                     @@ validateSection(Get(raw, "paths"), source, "paths").stored,
        warnings |-> validateSection(Get(raw, "patterns"), source, "patterns").warnings
                     \o validateSection(Get(raw, "paths"), source, "paths").warnings
                     \o unknownKeyWarnings(ObjectKeys(raw), source)]

\* rec[key], or the default when rec has no such field (rec?.key || default)
FieldOr(rec, key, default) == IF key \in DOMAIN rec THEN rec[key] ELSE default

\* does the override map m have an entry for key
MapHas(m, key) == \E i \in 1..Len(m) : m[i].k = key

\* m[key], m an override map with an entry for key
MapGet(m, key) == m[CHOOSE i \in 1..Len(m) : m[i].k = key].v

\* a merge in which the value of a already there is kept
SpreadFirstWins(a, b) == a \o SelectSeq(b, LAMBDA e : ~MapHas(a, e.k))

\* { ...a, ...b } on override maps: the keys of a in their order, then the
\* new keys of b in theirs; b's value where both have the key
Spread(a, b) ==
  [i \in 1..Len(a) |-> IF MapHas(b, a[i].k) THEN [k |-> a[i].k, v |-> MapGet(b, a[i].k)]
                                           ELSE a[i]]
    \o SelectSeq(b, LAMBDA e : ~MapHas(a, e.k))

\* a merge that puts the project's add and remove entries first
mergeSectionProjectFirst(gp, pp) ==
  (IF Len(FieldOr(pp, "add", <<>>) \o FieldOr(gp, "add", <<>>)) > 0
   THEN "add" :> (FieldOr(pp, "add", <<>>) \o FieldOr(gp, "add", <<>>)) ELSE <<>>)
  @@ (IF Len(FieldOr(pp, "remove", <<>>) \o FieldOr(gp, "remove", <<>>)) > 0
      THEN "remove" :> (FieldOr(pp, "remove", <<>>) \o FieldOr(gp, "remove", <<>>))
      ELSE <<>>)
  @@ (IF Len(Spread(FieldOr(gp, "override", <<>>), FieldOr(pp, "override", <<>>))) > 0
      THEN "override" :> Spread(FieldOr(gp, "override", <<>>), FieldOr(pp, "override", <<>>))
      ELSE <<>>)

\* the merged section: gp and pp are the sections of the two configs, the
\* empty function when a config has none
mergeSection(gp, pp) ==
  (IF Len(FieldOr(gp, "add", <<>>) \o FieldOr(pp, "add", <<>>)) > 0
   THEN "add" :> (FieldOr(gp, "add", <<>>) \o FieldOr(pp, "add", <<>>)) ELSE <<>>)
  @@ (IF Len(FieldOr(gp, "remove", <<>>) \o FieldOr(pp, "remove", <<>>)) > 0
      THEN "remove" :> (FieldOr(gp, "remove", <<>>) \o FieldOr(pp, "remove", <<>>))
      ELSE <<>>)
  @@ (IF Len(Spread(FieldOr(gp, "override", <<>>), FieldOr(pp, "override", <<>>))) > 0
      THEN "override" :> Spread(FieldOr(gp, "override", <<>>), FieldOr(pp, "override", <<>>))
      ELSE <<>>)

mergeConfigs(global, project) ==
  (IF "patterns" \in DOMAIN global \/ "patterns" \in DOMAIN project
   THEN "patterns" :> mergeSection(FieldOr(global, "patterns", <<>>),
                                   FieldOr(project, "patterns", <<>>))
   ELSE <<>>)
  @@ (IF "paths" \in DOMAIN global \/ "paths" \in DOMAIN project
      THEN "paths" :> mergeSection(FieldOr(global, "paths", <<>>),
                                   FieldOr(project, "paths", <<>>))
      ELSE <<>>)

\* join(process.env.HOME || '', '.config', 'opencode', 'damage-control.json')
globalConfig(home) ==
  (IF home = "" THEN "" ELSE home \o "/") \o ".config/opencode/damage-control.json"

\* join(directory, '.opencode', 'damage-control.json')
projectConfig(directory) == directory \o "/.opencode/damage-control.json"

\* the text of a file that JSON.parse rejects
Unparsable == [unparsable |-> TRUE]

\* fs maps the paths of the existing files to what JSON.parse makes of their
\* text; a missing file and a text that does not parse both give null
readJsonFile(fs, path) ==
  IF path \in DOMAIN fs /\ fs[path] # Unparsable THEN fs[path] ELSE NULL

\* a loadConfig that validates whatever readJsonFile returned, null included
validateReadAlways(raw, path) == validateConfig(raw, path)

\* validateConfig on what readJsonFile returned, the empty config for null
validateRead(raw, path) ==
  IF raw # NULL THEN validateConfig(raw, path) ELSE [config |-> <<>>, warnings |-> <<>>]

loadConfig(home, fs, directory) ==
  [config   |-> mergeConfigs(
                  validateRead(readJsonFile(fs, globalConfig(home)), globalConfig(home)).config,
                  validateRead(readJsonFile(fs, projectConfig(directory)),
                               projectConfig(directory)).config),
   warnings |-> validateRead(readJsonFile(fs, globalConfig(home)), globalConfig(home)).warnings
                \o validateRead(readJsonFile(fs, projectConfig(directory)),
                                projectConfig(directory)).warnings]

\* applyConfig works on arrays it is handed by reference.  A heap is the
\* sequence of the objects allocated so far, a reference an index into it.

\* a new object v: the heap with it and its reference
Alloc(h, v) == [heap |-> Append(h, v), ref |-> Len(h) + 1]

\* the identity key of the entries of a section
KeyField(section) == IF section = "patterns" THEN "reason" ELSE "path"

\* 1. Remove: st is the heap and the reference the variable patterns / paths
\* holds, sec the section of the config
removeStep(st, sec, section) ==
  IF "remove" \in DOMAIN sec
  THEN Alloc(st.heap,
             SelectSeq(st.heap[st.ref],
                       LAMBDA p : p[KeyField(section)]
                                    \notin { sec.remove[i] : i \in 1..Len(sec.remove) }))
  ELSE st

\* patterns.map((p) => ...): { ...p, action: newAction } where the override
\* map has the reason
overridePatterns(patterns, override) ==
  [i \in 1..Len(patterns) |->
     IF MapHas(override, patterns[i].reason)
     THEN [patterns[i] EXCEPT !.action = MapGet(override, patterns[i].reason)]
     ELSE patterns[i]]

\* a loop that stores 'none' as the level of the entry
overridePathsKeepNone(paths, override) ==
  [i \in 1..Len(paths) |->
     IF MapHas(override, paths[i].path)
     THEN [paths[i] EXCEPT !.level = MapGet(override, paths[i].path)]
     ELSE paths[i]]

\* the loop that fills afterOverride
RECURSIVE overridePaths(_, _)
overridePaths(paths, override) ==
  IF paths = <<>> THEN <<>>
  ELSE (IF MapHas(override, Head(paths).path)
        THEN IF MapGet(override, Head(paths).path) = "none" THEN <<>>
             ELSE <<[Head(paths) EXCEPT !.level = MapGet(override, Head(paths).path)]>>
        ELSE <<Head(paths)>>)
       \o overridePaths(Tail(paths), override)

\* 2. Override
overrideStep(st, sec, section) ==
  IF "override" \in DOMAIN sec
  THEN Alloc(st.heap,
             IF section = "patterns" THEN overridePatterns(st.heap[st.ref], sec.override)
                                     ELSE overridePaths(st.heap[st.ref], sec.override))
  ELSE st

\* an add step that puts the overlay's entries in front
addStepPrepend(st, sec) ==
  IF "add" \in DOMAIN sec THEN Alloc(st.heap, sec.add \o st.heap[st.ref]) ELSE st

\* 3. Add
addStep(st, sec) ==
  IF "add" \in DOMAIN sec THEN Alloc(st.heap, st.heap[st.ref] \o sec.add) ELSE st

\* the three steps with add first
applySectionAddFirst(h, config, defaults, section) ==
  IF section \in DOMAIN config
  THEN overrideStep(removeStep(addStep(Alloc(h, h[defaults]), config[section]),
                               config[section], section),
                    config[section], section)
  ELSE Alloc(h, h[defaults])

\* the three steps with add before override
applySectionAddBeforeOverride(h, config, defaults, section) ==
  IF section \in DOMAIN config
  THEN overrideStep(addStep(removeStep(Alloc(h, h[defaults]), config[section], section),
                            config[section]),
                    config[section], section)
  ELSE Alloc(h, h[defaults])

\* the three steps without the copy of the defaults
applySectionNoCopy(h, config, defaults, section) ==
  IF section \in DOMAIN config
  THEN addStep(overrideStep(removeStep([heap |-> h, ref |-> defaults], config[section],
                                       section),
                            config[section], section),
               config[section])
  ELSE [heap |-> h, ref |-> defaults]

\* let patterns = [...defaultPatterns] (or paths) and the three steps
applySection(h, config, defaults, section) ==
  IF section \in DOMAIN config
  THEN addStep(overrideStep(removeStep(Alloc(h, h[defaults]), config[section], section),
                            config[section], section),
               config[section])
  ELSE Alloc(h, h[defaults])

\* the paths half of applyConfig, pats being the outcome of the patterns half
applyPathsAfter(pats, config, defaultPaths) ==
  [heap     |-> applySection(pats.heap, config, defaultPaths, "paths").heap,
   patterns |-> pats.ref,
   paths    |-> applySection(pats.heap, config, defaultPaths, "paths").ref]

\* applyConfig on the heap h; config, defaultPatterns and defaultPaths are
\* references.  The heap it leaves and the references of the two lists it
\* returns
applyConfig(h, config, defaultPatterns, defaultPaths) ==
  applyPathsAfter(applySection(h, h[config], defaultPatterns, "patterns"),
                  h[config], defaultPaths)

-----------------------------------------------------------------------------
\* Bounds and input sets

\* longest rule list handed to matchPattern, checkPathProtection and
\* checkShellPathViolation
MaxRules == 2

\* longest add array of a configuration file handed to validateConfig
MaxAdd == 3

\* process.env.HOME: unset, or a home directory
Homes == {"", "/home/u"}

\* shell commands handed to the plugin
HookCommands == {
  "", "ls /tmp",
  "cat ~/.ssh/id_rsa", "cat /home/u/.ssh/id_rsa",
  "cat ~/.ssh/id_rsa; history -c",
  "cat server.pem",
  "cat ~/.bashrc", "echo x >> ~/.bashrc", "cat /etc/hosts",
  "echo x >> .gitignore", "rm .gitignore", "rm LICENSE",
  "git reset --hard", "DROP TABLE users", "sudo rm /tmp/x", "rm -rf /",
  "git reset --hard; DROP TABLE t" }

\* file paths handed to the plugin
HookFilePaths == {
  "", "/project/src/index.ts",
  "/etc/passwd", "/home/u/.ssh/id_rsa", "/project/server.pem",
  "/etc/hosts", "/home/u/.bashrc",
  "/project/.gitignore", "/project/LICENSE" }

\* commands handed to the exported functions
FnCommands == HookCommands \cup {
  "cat /etc/passwd", "rm ~/.bashrc", "rm ~/.ssh/id_rsa", "echo k > ~/.ssh/id_rsa",
  "echo x > ~/.bashrc; rm ~/.bashrc", "sed -i s/a/b/ .gitignore",
  "shred /project/LICENSE.md", "rm /etc/passwd" }

FnFilePaths == HookFilePaths \cup {
  "~/.ssh/id_rsa", "/etc/", "/project/a.pem/notes.txt", "/project/dist/LICENSE.txt" }

\* glob rules and the file paths they are tried on
GlobRules == {
  [path |-> "*.pem", level |-> "zeroAccess"],
  [path |-> "LICENSE*", level |-> "noDelete"],
  [path |-> "*.bak?", level |-> "zeroAccess"],
  [path |-> "a+b*", level |-> "readOnly"] }

GlobFilePaths == {
  "", "/project/server.pem", "/project/keys.pem/", "/project/a.pem/notes.txt",
  "/project/LICENSE", "LICENSE.md", "/project/LICENSE/x",
  "/project/x.bak?", "/project/x.bak", "/project/x.ba",
  "/project/a+b.c", "/project/aab.c" }

\* paths handed to expandHome
ExpandPaths == {
  "", "~", "~/.ssh", "~/.ssh/id_rsa", "/etc/passwd", "/project/file~",
  "/project/~/notes", "~/a~b", "relative/path" }

\* rules handed to matchPattern: built-in ones and custom ones
PatternPool == { DEFAULT_PATTERNS[i] : i \in 1..Len(DEFAULT_PATTERNS) } \cup {
  [pattern |-> "git\\s+reset", reason |-> "generic", action |-> "block"],
  [pattern |-> ".*", reason |-> "anything", action |-> "ask"] }

\* rules handed to checkPathProtection and checkShellPathViolation
PathPool == { DEFAULT_PROTECTED_PATHS[i] : i \in 1..Len(DEFAULT_PROTECTED_PATHS) }

SeqsUpTo(S, n) == UNION { [1..k -> S] : k \in 0..n }

\* the project directory the plugin is started in
Directory == "/project"

\* elements of a patterns.add array in a configuration file
RawPatternElements == {
  JObj(<<[k |-> "pattern", v |-> JStr("my-cmd")], [k |-> "reason", v |-> JStr("Custom")],
         [k |-> "action", v |-> JStr("block")]>>),
  JObj(<<[k |-> "pattern", v |-> JStr("new-cmd")], [k |-> "reason", v |-> JStr("New")],
         [k |-> "action", v |-> JStr("ask")]>>),
  JObj(<<[k |-> "pattern", v |-> JStr("(")], [k |-> "reason", v |-> JStr("Broken")],
         [k |-> "action", v |-> JStr("block")]>>),
  JObj(<<[k |-> "pattern", v |-> JStr("missing-action")], [k |-> "reason", v |-> JStr("Bad")]>>),
  JObj(<<[k |-> "pattern", v |-> JNum(1)], [k |-> "reason", v |-> JStr("Number")],
         [k |-> "action", v |-> JStr("ask")]>>),
  JObj(<<[k |-> "pattern", v |-> JStr("x")], [k |-> "reason", v |-> JStr("X")],
         [k |-> "action", v |-> JStr("warn")]>>),
  JStr("not an object") }

\* elements of a paths.add array in a configuration file
RawPathElements == {
  JObj(<<[k |-> "path", v |-> JStr("secrets/")], [k |-> "level", v |-> JStr("zeroAccess")]>>),
  JObj(<<[k |-> "path", v |-> JStr("build/")], [k |-> "level", v |-> JStr("readOnly")]>>),
  JObj(<<[k |-> "path", v |-> JStr("tmp/")], [k |-> "level", v |-> JStr("none")]>>),
  JObj(<<[k |-> "path", v |-> JStr("no-level")]>>),
  JObj(<<[k |-> "path", v |-> JBool(TRUE)], [k |-> "level", v |-> JStr("noDelete")]>>),
  NULL,
  JArr(<<>>) }

\* the other fields a section with an add array comes with
RawOtherFields == {
  <<>>,
  <<[k |-> "remove", v |-> JArr(<<JStr("SQL DROP TABLE"), JNum(7)>>)],
    [k |-> "override", v |-> JObj(<<[k |-> "valid reason", v |-> JStr("block")],
                                    [k |-> "bad reason", v |-> JStr("invalid-action")]>>)]>> }

\* configuration files with an add array of up to MaxAdd elements
RawWithAdd ==
  { JObj(<<[k |-> "patterns", v |-> JObj(<<[k |-> "add", v |-> JArr(add)]>> \o other)]>>) :
      add \in SeqsUpTo(RawPatternElements, MaxAdd), other \in RawOtherFields }
  \cup
  { JObj(<<[k |-> "paths", v |-> JObj(<<[k |-> "add", v |-> JArr(add)]>> \o other)]>>) :
      add \in SeqsUpTo(RawPathElements, MaxAdd), other \in RawOtherFields }

\* configuration files of other shapes
RawOthers == {
  JStr("just a string"),
  JNum(42),
  JObj(<<[k |-> "patterns", v |-> JObj(<<[k |-> "override", v |-> JObj(<<
            [k |-> "SQL DROP TABLE", v |-> JStr("deny")],
            [k |-> "Clear shell history", v |-> JStr("none")]>>)]>>)],
         [k |-> "paths", v |-> JObj(<<[k |-> "override", v |-> JObj(<<
            [k |-> "/etc/", v |-> JStr("block")]>>)]>>)]>>),
  JArr(<<>>),
  JObj(<<>>),
  JObj(<<[k |-> "patterns", v |-> JObj(<<>>)], [k |-> "unknownKey", v |-> JBool(TRUE)]>>),
  JObj(<<[k |-> "$schema", v |-> JStr("https://example.com/schema.json")],
         [k |-> "paths", v |-> JStr("none")]>>),
  JObj(<<[k |-> "patterns", v |-> JObj(<<[k |-> "add", v |-> JStr("x")],
                                         [k |-> "remove", v |-> JObj(<<>>)],
                                         [k |-> "override", v |-> JArr(<<>>)]>>)]>>),
  JObj(<<[k |-> "patterns", v |-> JObj(<<[k |-> "remove", v |-> JArr(<<JStr("SQL DROP TABLE")>>)],
                                         [k |-> "override", v |-> JObj(<<
                                            [k |-> "Clear shell history", v |-> JStr("block")]>>)]>>)],
         [k |-> "paths", v |-> JObj(<<[k |-> "remove", v |-> JArr(<<JStr("/etc/")>>)],
                                      [k |-> "override", v |-> JObj(<<
                                         [k |-> "LICENSE*", v |-> JStr("none")],
                                         [k |-> "~/.ssh", v |-> JStr("badLevel")],
                                         [k |-> ".gitignore", v |-> NULL]>>)]>>)]>>) }

RawPool == RawWithAdd \cup RawOthers

\* what a configuration file holds: parsed JSON, or a text that does not parse
FileContents == RawOthers \cup {NULL, Unparsable} \cup {
  JObj(<<[k |-> "patterns", v |-> JObj(<<
     [k |-> "add", v |-> JArr(<<
        JObj(<<[k |-> "pattern", v |-> JStr("(")], [k |-> "reason", v |-> JStr("Broken")],
               [k |-> "action", v |-> JStr("block")]>>),
        JStr("not an object"),
        JObj(<<[k |-> "pattern", v |-> JStr("my-cmd")], [k |-> "reason", v |-> JStr("Custom")],
               [k |-> "action", v |-> JStr("block")]>>)>>)],
     [k |-> "override", v |-> JObj(<<[k |-> "SQL DROP TABLE", v |-> JStr("ask")]>>)]>>)]>>),
  JObj(<<[k |-> "patterns", v |-> JObj(<<
     [k |-> "add", v |-> JArr(<<
        JObj(<<[k |-> "pattern", v |-> JStr("new-cmd")], [k |-> "reason", v |-> JStr("New")],
               [k |-> "action", v |-> JStr("ask")]>>)>>)],
     [k |-> "override", v |-> JObj(<<[k |-> "SQL DROP TABLE", v |-> JStr("block")]>>)]>>)]>>) }

\* the file systems of the model: each of the two files missing or present
FileSystems(home) ==
  { g @@ p :
      g \in {<<>>} \cup { globalConfig(home) :> c : c \in FileContents },
      p \in {<<>>} \cup { projectConfig(Directory) :> c : c \in FileContents } }

\* typed sections handed to mergeConfigs and applyConfig
PatternSections ==
  { a @@ r @@ o :
      a \in { <<>>,
              [add |-> <<[pattern |-> "my-cmd", reason |-> "Custom", action |-> "block"]>>],
              [add |-> <<[pattern |-> "new-cmd", reason |-> "New", action |-> "ask"],
                         [pattern |-> "DROP", reason |-> "SQL DROP TABLE", action |-> "ask"]>>] },
      r \in { <<>>,
              [remove |-> <<"SQL DROP TABLE">>],
              [remove |-> <<"no such reason", "generic">>] },
      o \in { <<>>,
              [override |-> <<[k |-> "SQL DROP TABLE", v |-> "ask"]>>],
              [override |-> <<[k |-> "generic", v |-> "ask"],
                              [k |-> "SQL DROP TABLE", v |-> "block"]>>],
              [override |-> <<[k |-> "no such reason", v |-> "block"]>>] } }

PathSections ==
  { a @@ r @@ o :
      a \in { <<>>,
              [add |-> <<[path |-> "secrets/", level |-> "zeroAccess"]>>],
              [add |-> <<[path |-> "build/", level |-> "readOnly"],
                         [path |-> "/etc/", level |-> "noDelete"]>>] },
      r \in { <<>>,
              [remove |-> <<"/etc/">>],
              [remove |-> <<"no/such/path", "~/.ssh">>] },
      o \in { <<>>,
              [override |-> <<[k |-> "/etc/", v |-> "none"]>>],
              [override |-> <<[k |-> "~/.ssh", v |-> "readOnly"],
                              [k |-> "/etc/", v |-> "zeroAccess"]>>],
              [override |-> <<[k |-> "no/such/path", v |-> "none"]>>] } }

PatternConfigs == {<<>>} \cup { [patterns |-> sec] : sec \in PatternSections }

PathConfigs == {<<>>} \cup { [paths |-> sec] : sec \in PathSections }

\* a configuration with both sections
BothConfig ==
  [patterns |-> [remove |-> <<"SQL DROP TABLE">>,
                 override |-> <<[k |-> "Clear shell history", v |-> "block"]>>,
                 add |-> <<[pattern |-> "my-cmd", reason |-> "Custom", action |-> "block"]>>],
   paths |-> [remove |-> <<"/etc/">>,
              override |-> <<[k |-> "LICENSE*", v |-> "none"]>>,
              add |-> <<[path |-> "secrets/", level |-> "zeroAccess"]>>]]

ConfigPool == PatternConfigs \cup PathConfigs \cup {BothConfig}

\* the heap applyConfig is called on: the two default lists and the config
ApplyHeaps ==
  { <<dp, DEFAULT_PROTECTED_PATHS, c>> :
      dp \in SeqsUpTo(PatternPool, MaxRules), c \in PatternConfigs }
  \cup
  { <<DEFAULT_PATTERNS, dpaths, c>> :
      dpaths \in SeqsUpTo(PathPool, MaxRules), c \in PathConfigs }
  \cup { <<DEFAULT_PATTERNS, DEFAULT_PROTECTED_PATHS, BothConfig>> }

-----------------------------------------------------------------------------
\* The exported functions of src/patterns.ts applied to drawn inputs

NoCall == [hook |-> "", tool |-> "", callID |-> "", command |-> "", filePath |-> "",
           outcome |-> "", message |-> "", statusIn |-> "", status |-> ""]

NoPending == [k \in {} |-> NULL]

InitFn ==
  /\ pc = "start"
  /\ ret = NULL
  /\ pendingAsks = NoPending
  /\ call = NoCall
  /\ \/ /\ HOME \in Homes /\ files = <<>> /\ heap = <<>>
        /\ \/ /\ fn = "matchPattern"
              /\ args \in [command : FnCommands, patterns : SeqsUpTo(PatternPool, MaxRules)]
           \/ /\ fn = "checkPathProtection"
              /\ args \in [filePath : FnFilePaths,
                           protectedPaths : SeqsUpTo(PathPool, MaxRules)]
           \/ /\ fn = "checkShellPathViolation"
              /\ args \in [command : FnCommands,
                           protectedPaths : SeqsUpTo(PathPool, MaxRules)]
           \/ /\ fn = "checkPathProtection"
              /\ args \in [filePath : GlobFilePaths,
                           protectedPaths : { <<r>> : r \in GlobRules }]
           \/ /\ fn = "expandHome"
              /\ args \in [p : ExpandPaths]
     \/ /\ HOME = "/home/u" /\ files = <<>> /\ heap = <<>>
        /\ \/ /\ fn = "validateConfig"
              /\ args \in [raw : RawPool, source : {projectConfig(Directory)}]
           \/ /\ fn = "mergeConfigs"
              /\ args \in [global : ConfigPool, project : ConfigPool]
     \/ /\ HOME \in Homes /\ heap = <<>>
        /\ fn = "loadConfig"
        /\ args = [directory |-> Directory]
        /\ files \in FileSystems(HOME)
     \/ /\ HOME = "/home/u" /\ files = <<>>
        /\ fn = "applyConfig"
        /\ args = [defaultPatterns |-> 1, defaultPaths |-> 2, config |-> 3]
        /\ heap \in ApplyHeaps

MatchPatternCall ==
  /\ pc = "start" /\ fn = "matchPattern"
  /\ ret' = matchPattern(args.command, args.patterns)
  /\ pc' = "done"
  /\ UNCHANGED <<HOME, fn, args, pendingAsks, call, files, heap>>

CheckPathProtectionCall ==
  /\ pc = "start" /\ fn = "checkPathProtection"
  /\ ret' = checkPathProtection(args.filePath, args.protectedPaths)
  /\ pc' = "done"
  /\ UNCHANGED <<HOME, fn, args, pendingAsks, call, files, heap>>

CheckShellPathViolationCall ==
  /\ pc = "start" /\ fn = "checkShellPathViolation"
  /\ ret' = checkShellPathViolation(args.command, args.protectedPaths)
  /\ pc' = "done"
  /\ UNCHANGED <<HOME, fn, args, pendingAsks, call, files, heap>>

ExpandHomeCall ==
  /\ pc = "start" /\ fn = "expandHome"
  /\ ret' = expandHome(args.p)
  /\ pc' = "done"
  /\ UNCHANGED <<HOME, fn, args, pendingAsks, call, files, heap>>

ValidateConfigCall ==
  /\ pc = "start" /\ fn = "validateConfig"
  /\ ret' = validateConfig(args.raw, args.source)
  /\ pc' = "done"
  /\ UNCHANGED <<HOME, fn, args, pendingAsks, call, files, heap>>

MergeConfigsCall ==
  /\ pc = "start" /\ fn = "mergeConfigs"
  /\ ret' = mergeConfigs(args.global, args.project)
  /\ pc' = "done"
  /\ UNCHANGED <<HOME, fn, args, pendingAsks, call, files, heap>>

LoadConfigCall ==
  /\ pc = "start" /\ fn = "loadConfig"
  /\ ret' = loadConfig(HOME, files, args.directory)
  /\ pc' = "done"
  /\ UNCHANGED <<HOME, fn, args, pendingAsks, call, files, heap>>

\* the heap and the return value of an applyConfig call, out being what
\* applyConfig made of the heap
applyConfigDone(out) ==
  /\ heap' = out.heap
  /\ ret' = [patterns |-> out.patterns, paths |-> out.paths]

ApplyConfigCall ==
  /\ pc = "start" /\ fn = "applyConfig"
  /\ applyConfigDone(applyConfig(heap, args.config, args.defaultPatterns, args.defaultPaths))
  /\ pc' = "done"
  /\ UNCHANGED <<HOME, fn, args, pendingAsks, call, files>>

NextFn ==
  \/ MatchPatternCall
  \/ CheckPathProtectionCall
  \/ CheckShellPathViolationCall
  \/ ExpandHomeCall
  \/ ValidateConfigCall
  \/ MergeConfigsCall
  \/ LoadConfigCall
  \/ ApplyConfigCall

SpecFn == InitFn /\ [][NextFn]_vars

-----------------------------------------------------------------------------
\* src/index.ts: the plugin

ShellTools == {"bash", "shell", "cmd"}
ReadTools  == {"read", "glob", "grep"}
WriteTools == {"edit", "write", "create"}
\* a tool none of the sections of tool.execute.before handles
OtherTools == {"list"}
Tools      == ShellTools \cup ReadTools \cup WriteTools \cup OtherTools

\* callIDs of the host's tool calls
CallIDs == {"c1", "c2"}

\* output.status as the permission system hands it to permission.ask
Statuses == {"allow", "ask", "deny"}

BLOCKED == "DAMAGE_CONTROL_BLOCKED: "

Return        == [kind |-> "return", message |-> "", reason |-> "", match |-> ""]
ThrowError(m) == [kind |-> "throw", message |-> m, reason |-> "", match |-> ""]
Stash(r, m)   == [kind |-> "stash", message |-> "", reason |-> r, match |-> m]

\* the loop over DEFAULT_PROTECTED_PATHS of the shell section: the first
\* entry whose raw or expanded path is a substring of the command
RECURSIVE firstPathInCommand(_, _, _, _)
firstPathInCommand(home, command, protectedPaths, i) ==
  IF i > Len(protectedPaths) THEN NULL
  ELSE IF \/ Includes(command, expandHomeIn(home, protectedPaths[i].path))
          \/ Includes(command, protectedPaths[i].path)
       THEN protectedPaths[i]
       ELSE firstPathInCommand(home, command, protectedPaths, i + 1)

\* the throw of the loop, prot being the entry it stopped at
shellPathOutcome(prot) ==
  IF prot # NULL
  THEN ThrowError(BLOCKED \o "Protected path \"" \o prot.path
                    \o "\" cannot be accessed\n"
                    \o "Protection level: " \o prot.level)
  ELSE Return

\* a shell section that stashes every match, whatever the action of its rule
shellOutcomeStashAll(home, command, result) ==
  IF result # NULL
  THEN Stash(result.pattern.reason, result.match)
  ELSE shellPathOutcome(firstPathInCommand(home, command, DEFAULT_PROTECTED_PATHS, 1))

\* the shell section after matchPattern has returned result
shellOutcome(home, command, result) ==
  IF result # NULL
  THEN IF result.pattern.action = "block"
       THEN ThrowError(BLOCKED \o result.pattern.reason \o "\n\n"
                         \o "Command: " \o result.match)
       ELSE Stash(result.pattern.reason, result.match)
  ELSE shellPathOutcome(firstPathInCommand(home, command, DEFAULT_PROTECTED_PATHS, 1))

\* -- Shell commands --
shellSection(home, command) ==
  IF command = "" THEN Return
  ELSE shellOutcome(home, command, matchPattern(command, DEFAULT_PATTERNS))

\* the read section after checkPathProtection has returned prot
readOutcome(prot) ==
  IF prot # NULL /\ prot.level = "zeroAccess"
  THEN ThrowError(BLOCKED \o "Cannot read protected path \"" \o prot.path \o "\"")
  ELSE Return

\* a read section that blocks whatever the level of the rule is
readSectionAnyLevel(home, filePath) ==
  IF filePath = "" THEN Return
  ELSE IF checkPathProtectionIn(home, filePath, DEFAULT_PROTECTED_PATHS) # NULL
       THEN ThrowError(BLOCKED \o "Cannot read protected path")
       ELSE Return

\* -- Read operations --
readSection(home, filePath) ==
  IF filePath = "" THEN Return
  ELSE readOutcome(checkPathProtectionIn(home, filePath, DEFAULT_PROTECTED_PATHS))

\* the write section after checkPathProtection has returned prot
writeOutcome(tool, prot) ==
  IF prot # NULL
  THEN ThrowError(BLOCKED \o "Cannot " \o tool \o " protected path \""
                    \o prot.path \o "\"\n" \o "Protection level: " \o prot.level)
  ELSE Return

\* -- Write operations --
writeSection(home, tool, filePath) ==
  IF filePath = "" THEN Return
  ELSE writeOutcome(tool, checkPathProtectionIn(home, filePath, DEFAULT_PROTECTED_PATHS))

\* what tool.execute.before does with a tool call: return, throw, or stash
\* the match and return
toolExecuteBefore(home, tool, a) ==
  CASE tool \in ShellTools -> shellSection(home, a.command)
    [] tool \in ReadTools  -> readSection(home, a.filePath)
    [] tool \in WriteTools -> writeSection(home, tool, a.filePath)
    [] OTHER               -> Return

\* output.args of a tool call
ToolArgs(tool) ==
  CASE tool \in ShellTools -> [command : HookCommands, filePath : {""}]
    [] tool \in ReadTools \cup WriteTools -> [command : {""}, filePath : HookFilePaths]
    [] OTHER -> [command : {""}, filePath : {""}]

\* pendingAsks.set(key, value)
MapSet(m, key, value) ==
  [k \in (DOMAIN m) \cup {key} |-> IF k = key THEN value ELSE m[k]]

\* pendingAsks.delete(key)
MapDelete(m, key) == [k \in (DOMAIN m) \ {key} |-> m[k]]

\* matchPattern(command, DEFAULT_PATTERNS) for every command of the model,
\* evaluated once
DefaultMatches == [c \in HookCommands |-> matchPattern(c, DEFAULT_PATTERNS)] @@ <<>>

\* the configuration files the plugin is started with: none, or a project
\* file that removes, overrides and adds rules
PluginFileSystems == {
  <<>>,
  projectConfig(Directory) :>
    JObj(<<[k |-> "patterns", v |-> JObj(<<
              [k |-> "remove", v |-> JArr(<<JStr("SQL DROP TABLE")>>)],
              [k |-> "override", v |-> JObj(<<
                 [k |-> "Clear shell history", v |-> JStr("block")]>>)],
              [k |-> "add", v |-> JArr(<<
                 JObj(<<[k |-> "pattern", v |-> JStr("ls")], [k |-> "reason", v |-> JStr("No listing")],
                        [k |-> "action", v |-> JStr("block")]>>)>>)]>>)],
           [k |-> "paths", v |-> JObj(<<
              [k |-> "remove", v |-> JArr(<<JStr("/etc/")>>)],
              [k |-> "override", v |-> JObj(<<[k |-> ".gitignore", v |-> JStr("none")]>>)],
              [k |-> "add", v |-> JArr(<<
                 JObj(<<[k |-> "path", v |-> JStr("/project/src")],
                        [k |-> "level", v |-> JStr("zeroAccess")]>>)>>)]>>)]>>) }

\* toolExecuteBefore on every input of the model, evaluated once
Decisions ==
  [h \in Homes |-> [tool \in Tools |->
     [a \in ToolArgs(tool) |-> toolExecuteBefore(h, tool, a)] @@ <<>>] @@ <<>>] @@ <<>>

Init ==
  /\ HOME \in Homes
  /\ pc = "idle"
  /\ fn = "plugin"
  /\ args = NULL
  /\ ret = NULL
  /\ pendingAsks = NoPending
  /\ call = NoCall
  /\ files \in PluginFileSystems
  /\ heap = <<>>

\* the state after tool.execute.before has decided d for a tool call
toolCallDone(d, tool, callID, a) ==
  /\ pendingAsks' =
       IF d.kind = "stash"
       THEN MapSet(pendingAsks, callID,
                   [reason |-> d.reason, match |-> d.match, tool |-> tool])
       ELSE pendingAsks
  /\ call' = [hook |-> "tool.execute.before", tool |-> tool, callID |-> callID,
              command |-> a.command, filePath |-> a.filePath,
              outcome |-> IF d.kind = "throw" THEN "thrown" ELSE "returned",
              message |-> d.message, statusIn |-> "", status |-> ""]

\* Hook 1: 'tool.execute.before'
ToolExecuteBefore ==
  /\ fn = "plugin"
  /\ \E tool \in Tools, callID \in CallIDs :
       \E a \in ToolArgs(tool) :
         toolCallDone(Decisions[HOME][tool][a], tool, callID, a)
  /\ UNCHANGED <<HOME, pc, fn, args, ret, files, heap>>

\* a permission.ask that consumes the stashed match and leaves a status of
\* 'allow' as it is
PermissionAskKeepAllow ==
  /\ fn = "plugin"
  /\ \E callID \in CallIDs \cup {""}, status \in Statuses :
    LET found == callID # "" /\ callID \in DOMAIN pendingAsks
    IN  /\ pendingAsks' = IF found THEN MapDelete(pendingAsks, callID) ELSE pendingAsks
        /\ call' = [hook |-> "permission.ask", tool |-> "", callID |-> callID,
                    command |-> "", filePath |-> "",
                    outcome |-> "returned", message |-> "",
                    statusIn |-> status,
                    status |-> IF found /\ status # "allow" THEN "ask" ELSE status]
        /\ UNCHANGED <<HOME, pc, fn, args, ret, files, heap>>

\* a permission.ask that leaves the entry it found in the map
PermissionAskNoDelete ==
  /\ fn = "plugin"
  /\ \E callID \in CallIDs \cup {""}, status \in Statuses :
    LET found == callID # "" /\ callID \in DOMAIN pendingAsks
    IN  /\ pendingAsks' = pendingAsks
        /\ call' = [hook |-> "permission.ask", tool |-> "", callID |-> callID,
                    command |-> "", filePath |-> "",
                    outcome |-> "returned", message |-> "",
                    statusIn |-> status,
                    status |-> IF found THEN "ask" ELSE status]
        /\ UNCHANGED <<HOME, pc, fn, args, ret, files, heap>>

\* Hook 2: 'permission.ask'
PermissionAsk ==
  /\ fn = "plugin"
  /\ \E callID \in CallIDs \cup {""}, status \in Statuses :
    LET found == callID # "" /\ callID \in DOMAIN pendingAsks
    IN  /\ pendingAsks' = IF found THEN MapDelete(pendingAsks, callID) ELSE pendingAsks
        /\ call' = [hook |-> "permission.ask", tool |-> "", callID |-> callID,
                    command |-> "", filePath |-> "",
                    outcome |-> "returned", message |-> "",
                    statusIn |-> status,
                    status |-> IF found THEN "ask" ELSE status]
        /\ UNCHANGED <<HOME, pc, fn, args, ret, files, heap>>

Next == ToolExecuteBefore \/ PermissionAsk

Spec == Init /\ [][Next]_vars

\* the host keeps invoking both hooks; which callID it passes to
\* permission.ask is up to the host
SpecLive == Spec /\ WF_vars(ToolExecuteBefore) /\ WF_vars(PermissionAsk)

-----------------------------------------------------------------------------
\* Properties of the exported functions (checked under SpecFn)

\* C1: matchPattern returns the first rule in list order whose pattern matches
\* the command (when several rules match, the earliest one is returned), and
\* it returns null exactly when no rule of the list matches.
C1_MatchPatternFirstMatch ==
  (fn = "matchPattern" /\ pc = "done") =>
    LET rules == args.patterns
        M == { i \in 1..Len(rules) :
                 RegExpTest(RegExpOf(rules[i].pattern), args.command, TRUE) }
    IN  /\ (ret = NULL) <=> (M = {})
        /\ M # {} => \E i \in M : /\ \A j \in M : i <= j
                                 /\ ret.pattern = rules[i]

\* two different rules both match the command and the earlier one is returned
C1_Witness ==
  /\ fn = "matchPattern" /\ pc = "done"
  /\ Len(args.patterns) = 2
  /\ args.patterns[1] # args.patterns[2]
  /\ \A i \in 1..2 : RegExpTest(RegExpOf(args.patterns[i].pattern), args.command, TRUE)
  /\ ret # NULL
  /\ ret.pattern = args.patterns[1]

\* C2: checkPathProtection returns the first rule in list order that matches
\* the file path; with /etc/passwd (zeroAccess) listed before /etc/ (readOnly),
\* /etc/passwd classifies as zeroAccess and /etc/hosts as readOnly; it returns
\* null when no rule matches, also for the empty list.
C2_CheckPathProtectionFirstMatch ==
  (fn = "checkPathProtection" /\ pc = "done") =>
    LET rules == args.protectedPaths
        M == { i \in 1..Len(rules) : pathRuleMatches(HOME, args.filePath, rules[i]) }
    IN  /\ (ret = NULL) <=> (M = {})
        /\ M # {} => \E i \in M : /\ \A j \in M : i <= j
                                 /\ ret = rules[i]
        /\ rules = <<>> => ret = NULL
        /\ rules = << [path |-> "/etc/passwd", level |-> "zeroAccess"],
                      [path |-> "/etc/", level |-> "readOnly"] >> =>
             /\ args.filePath = "/etc/passwd" => (ret # NULL /\ ret.level = "zeroAccess")
             /\ args.filePath = "/etc/hosts" => (ret # NULL /\ ret.level = "readOnly")

\* /etc/passwd is matched by a readOnly rule and by a later, more specific
\* zeroAccess rule, and classifies under the first of the list
C2_Witness ==
  /\ fn = "checkPathProtection" /\ pc = "done"
  /\ args.filePath = "/etc/passwd"
  /\ args.protectedPaths = << [path |-> "/etc/", level |-> "readOnly"],
                              [path |-> "/etc/passwd", level |-> "zeroAccess"] >>
  /\ ret = [path |-> "/etc/", level |-> "readOnly"]

\* C3: in checkShellPathViolation a zeroAccess rule is violated by every
\* command that references its path, whatever the command does, and the
\* reported operation is 'access'.
C3_ZeroAccessAnyReference ==
  (fn = "checkShellPathViolation" /\ pc = "done") =>
    LET rules == args.protectedPaths
        zeroRef(i) == /\ rules[i].level = "zeroAccess"
                      /\ commandReferencesPath(args.command, rules[i].path)
    IN  /\ \A i \in 1..Len(rules) : zeroRef(i) => ret # NULL
        /\ (Len(rules) >= 1 /\ zeroRef(1)) =>
             ret = [protectedPath |-> rules[1], operation |-> "access"]
        /\ (Len(rules) = 1 /\ rules[1].level = "zeroAccess" /\ ~zeroRef(1)) => ret = NULL
        /\ (ret # NULL /\ ret.protectedPath.level = "zeroAccess") =>
             ret.operation = "access"

\* a command that deletes under a zeroAccess path is reported as 'access'
C3_Witness ==
  /\ fn = "checkShellPathViolation" /\ pc = "done"
  /\ Len(args.protectedPaths) >= 1
  /\ args.protectedPaths[1].level = "zeroAccess"
  /\ commandReferencesPath(args.command, args.protectedPaths[1].path)
  /\ AnyOpTest(SHELL_DELETE_OPS, args.command)
  /\ ret = [protectedPath |-> args.protectedPaths[1], operation |-> "access"]

\* C4: in checkShellPathViolation a readOnly rule is violated with operation
\* 'write' iff the command references its path and holds a write operator,
\* otherwise with 'delete' iff the command references its path and holds a
\* delete operator; a command that references the path with neither operator
\* does not violate the rule.
C4_ReadOnlyWriteThenDelete ==
  (/\ fn = "checkShellPathViolation" /\ pc = "done"
   /\ Len(args.protectedPaths) >= 1
   /\ args.protectedPaths[1].level = "readOnly") =>
    LET p   == args.protectedPaths[1]
        ref == commandReferencesPath(args.command, p.path)
        w   == AnyOpTest(SHELL_WRITE_OPS, args.command)
        d   == AnyOpTest(SHELL_DELETE_OPS, args.command)
        isP == ret # NULL /\ ret.protectedPath = p
    IN  /\ (isP /\ ret.operation = "write") <=> (ref /\ w)
        /\ (isP /\ ret.operation = "delete") <=> (ref /\ ~w /\ d)
        /\ isP => ret.operation \in {"write", "delete"}
        /\ (ref /\ ~w /\ ~d) => ~isP

\* a command that writes and deletes a readOnly path is reported as 'write'
C4_Witness ==
  /\ fn = "checkShellPathViolation" /\ pc = "done"
  /\ Len(args.protectedPaths) >= 1
  /\ args.protectedPaths[1].level = "readOnly"
  /\ commandReferencesPath(args.command, args.protectedPaths[1].path)
  /\ AnyOpTest(SHELL_WRITE_OPS, args.command)
  /\ AnyOpTest(SHELL_DELETE_OPS, args.command)
  /\ ret = [protectedPath |-> args.protectedPaths[1], operation |-> "write"]

\* C5: in checkShellPathViolation a noDelete rule is violated only by a
\* command that references its path and holds a delete operator, with
\* operation 'delete'; reading or writing the path without a delete operator
\* does not violate the rule.
C5_NoDeleteOnlyDelete ==
  (/\ fn = "checkShellPathViolation" /\ pc = "done"
   /\ Len(args.protectedPaths) >= 1
   /\ args.protectedPaths[1].level = "noDelete") =>
    LET p   == args.protectedPaths[1]
        ref == commandReferencesPath(args.command, p.path)
        d   == AnyOpTest(SHELL_DELETE_OPS, args.command)
        isP == ret # NULL /\ ret.protectedPath = p
    IN  /\ isP <=> (ref /\ d)
        /\ isP => ret.operation = "delete"

\* a command that writes a noDelete path without deleting violates nothing
C5_Witness ==
  /\ fn = "checkShellPathViolation" /\ pc = "done"
  /\ Len(args.protectedPaths) = 1
  /\ args.protectedPaths[1].level = "noDelete"
  /\ commandReferencesPath(args.command, args.protectedPaths[1].path)
  /\ AnyOpTest(SHELL_WRITE_OPS, args.command)
  /\ ~AnyOpTest(SHELL_DELETE_OPS, args.command)
  /\ ret = NULL

\* C6: checkShellPathViolation returns the first rule in list order that is
\* violated, or null if none is; a rule that is referenced but not violated
\* does not stop the scan.
C6_FirstViolatedRule ==
  (fn = "checkShellPathViolation" /\ pc = "done") =>
    LET rules == args.protectedPaths
        ref(i) == commandReferencesPath(args.command, rules[i].path)
        w == AnyOpTest(SHELL_WRITE_OPS, args.command)
        d == AnyOpTest(SHELL_DELETE_OPS, args.command)
        violated(i) ==
          \/ rules[i].level = "zeroAccess" /\ ref(i)
          \/ rules[i].level = "readOnly" /\ ref(i) /\ (w \/ d)
          \/ rules[i].level = "noDelete" /\ ref(i) /\ d
        V == { i \in 1..Len(rules) : violated(i) }
    IN  /\ (ret = NULL) <=> (V = {})
        /\ V # {} => \E i \in V : /\ \A j \in V : i <= j
                                 /\ ret.protectedPath = rules[i]

\* the first rule is referenced by a read and not violated, and the second
\* rule, which is violated, is returned
C6_Witness ==
  /\ fn = "checkShellPathViolation" /\ pc = "done"
  /\ Len(args.protectedPaths) = 2
  /\ args.protectedPaths[1].level = "readOnly"
  /\ commandReferencesPath(args.command, args.protectedPaths[1].path)
  /\ ~AnyOpTest(SHELL_WRITE_OPS, args.command)
  /\ ~AnyOpTest(SHELL_DELETE_OPS, args.command)
  /\ ret # NULL
  /\ ret.protectedPath = args.protectedPaths[2]

-----------------------------------------------------------------------------
\* Properties of the plugin (checked under Spec)

\* C7: every bash/shell/cmd tool call whose command references a zeroAccess
\* path is hard-blocked by tool.execute.before (it throws
\* DAMAGE_CONTROL_BLOCKED), also when the command matches an 'ask' pattern.
C7_ZeroAccessShellAlwaysBlocked ==
  (/\ call.hook = "tool.execute.before"
   /\ call.tool \in ShellTools
   /\ \E i \in 1..Len(DEFAULT_PROTECTED_PATHS) :
        /\ DEFAULT_PROTECTED_PATHS[i].level = "zeroAccess"
        /\ commandReferencesPath(call.command, DEFAULT_PROTECTED_PATHS[i].path)) =>
    /\ call.outcome = "thrown"
    /\ Len(call.message) >= Len(BLOCKED)
    /\ SubSeq(call.message, 1, Len(BLOCKED)) = BLOCKED

\* C8: for a bash/shell/cmd tool call whose command matches no pattern rule,
\* tool.execute.before throws iff checkShellPathViolation reports a violation
\* for the command and the path list.
C8_ShellPathsByTierAndOperation ==
  (/\ call.hook = "tool.execute.before"
   /\ call.tool \in ShellTools
   /\ matchPattern(call.command, DEFAULT_PATTERNS) = NULL) =>
    ((call.outcome = "thrown") <=>
       (checkShellPathViolation(call.command, DEFAULT_PROTECTED_PATHS) # NULL))

\* C9: an edit, write or create tool call is blocked by tool.execute.before
\* iff its file path classifies under a zeroAccess or readOnly rule; a path
\* that classifies as noDelete may be written.
C9_WriteBlockedIffZeroAccessOrReadOnly ==
  (call.hook = "tool.execute.before" /\ call.tool \in WriteTools) =>
    LET prot == checkPathProtection(call.filePath, DEFAULT_PROTECTED_PATHS)
    IN  (call.outcome = "thrown") <=>
          (prot # NULL /\ prot.level \in {"zeroAccess", "readOnly"})

C11_BlockThrowsWithoutStash ==
  [][ (/\ call'.hook = "tool.execute.before"
       /\ call'.tool \in ShellTools
       /\ call'.command # ""
       /\ DefaultMatches[call'.command] # NULL
       /\ DefaultMatches[call'.command].pattern.action = "block") =>
        /\ call'.outcome = "thrown"
        /\ call'.message = BLOCKED \o DefaultMatches[call'.command].pattern.reason
                             \o "\n\n" \o "Command: "
                             \o DefaultMatches[call'.command].match
        /\ pendingAsks' = pendingAsks ]_vars

\* a command that matches a 'block' rule first and an 'ask' rule later is
\* thrown and nothing is stashed under its callID
C11_Witness ==
  /\ call.hook = "tool.execute.before" /\ call.tool \in ShellTools
  /\ call.command = "git reset --hard; DROP TABLE t"
  /\ call.outcome = "thrown"
  /\ call.message = "DAMAGE_CONTROL_BLOCKED: SQL DROP TABLE\n\nCommand: DROP TABLE"
  /\ call.callID \notin DOMAIN pendingAsks

\* C12: when the first pattern rule matching a shell command has action 'ask',
\* tool.execute.before returns and stashes the match under the call's callID;
\* the entry stays until permission.ask is invoked with that callID, and that
\* invocation sets output.status to 'ask' whatever the status was.
C12_AskStashedThenForced ==
  [][ /\ (/\ call'.hook = "tool.execute.before"
          /\ call'.tool \in ShellTools
          /\ call'.command # ""
          /\ DefaultMatches[call'.command] # NULL
          /\ DefaultMatches[call'.command].pattern.action = "ask") =>
           /\ call'.outcome = "returned"
           /\ call'.callID \in DOMAIN pendingAsks'
           /\ pendingAsks'[call'.callID] =
                [reason |-> DefaultMatches[call'.command].pattern.reason,
                 match  |-> DefaultMatches[call'.command].match,
                 tool   |-> call'.tool]
      /\ \A id \in DOMAIN pendingAsks :
           \/ id \in DOMAIN pendingAsks'
           \/ call'.hook = "permission.ask" /\ call'.callID = id
      /\ (call'.hook = "permission.ask" /\ call'.callID \in DOMAIN pendingAsks) =>
           call'.status = "ask" ]_vars

\* a stashed call whose status the permission system had set to 'allow' has
\* been turned into 'ask' and its entry consumed
C12_Witness ==
  /\ call.hook = "permission.ask"
  /\ call.callID \in CallIDs
  /\ call.statusIn = "allow"
  /\ call.status = "ask"
  /\ call.callID \notin DOMAIN pendingAsks

-----------------------------------------------------------------------------
\* Properties of the configuration (C13 under Spec, the others under SpecFn)

\* applyConfig on a heap that holds the built-in defaults and the config cfg
appliedToDefaults(cfg) ==
  applyConfig(<<DEFAULT_PATTERNS, DEFAULT_PROTECTED_PATHS, cfg>>, 3, 1, 2)

\* the two lists an applyConfig outcome refers to
listsOf(out) == [patterns |-> out.heap[out.patterns], paths |-> out.heap[out.paths]]

\* applyConfig(loadConfig(directory).config, DEFAULT_PATTERNS,
\* DEFAULT_PROTECTED_PATHS): the effective lists for the files fs
effectiveLists(home, fs) ==
  listsOf(appliedToDefaults(loadConfig(home, fs, Directory).config))

\* C13: the rule lists tool.execute.before evaluates are the effective lists
\* (the merged configuration applied to the defaults): a shell command is
\* thrown with a pattern rule's message exactly when its first match in the
\* effective pattern list is a 'block' rule, and stashed when it is an 'ask'
\* rule; a read is thrown exactly when the first matching rule of the
\* effective path list is zeroAccess.
C13_EffectiveListsEnforced ==
  /\ (call.hook = "tool.execute.before" /\ call.tool \in ShellTools /\ call.command # "") =>
       LET r == matchPattern(call.command, effectiveLists(HOME, files).patterns)
       IN  /\ (r # NULL /\ r.pattern.action = "block") =>
                 /\ call.outcome = "thrown"
                 /\ call.message = BLOCKED \o r.pattern.reason \o "\n\n"
                                     \o "Command: " \o r.match
           /\ (r # NULL /\ r.pattern.action = "ask") =>
                 /\ call.outcome = "returned"
                 /\ call.callID \in DOMAIN pendingAsks
           /\ r = NULL =>
                 \A i \in 1..Len(DEFAULT_PATTERNS) :
                   ~(/\ call.outcome = "thrown"
                     /\ Len(call.message) >= Len(BLOCKED \o DEFAULT_PATTERNS[i].reason)
                     /\ SubSeq(call.message, 1, Len(BLOCKED \o DEFAULT_PATTERNS[i].reason))
                          = BLOCKED \o DEFAULT_PATTERNS[i].reason)
  /\ (call.hook = "tool.execute.before" /\ call.tool \in ReadTools /\ call.filePath # "") =>
       LET prot == checkPathProtectionIn(HOME, call.filePath, effectiveLists(HOME, files).paths)
       IN  call.outcome = "thrown" <=> (prot # NULL /\ prot.level = "zeroAccess")

\* C14: applyConfig removes, then overrides, then adds.  In each returned
\* list the add entries come last, exactly as the overlay has them; the part
\* before them has no entry whose key the overlay removes (also when the
\* overlay overrides that key); and when no default entry has a key the
\* overlay removes or overrides, that part equals the defaults.
C14_RemoveOverrideAdd ==
  (fn = "applyConfig" /\ pc = "done") =>
    \A section \in {"patterns", "paths"} :
      LET defaults == heap[IF section = "patterns" THEN args.defaultPatterns
                                                   ELSE args.defaultPaths]
          result   == heap[ret[section]]
          sec      == FieldOr(heap[args.config], section, <<>>)
          add      == FieldOr(sec, "add", <<>>)
          remove   == FieldOr(sec, "remove", <<>>)
          override == FieldOr(sec, "override", <<>>)
          touched  == { remove[i] : i \in 1..Len(remove) }
                        \cup { override[i].k : i \in 1..Len(override) }
          kept     == Len(result) - Len(add)
      IN  /\ kept >= 0
          /\ SubSeq(result, kept + 1, Len(result)) = add
          /\ \A i \in 1..kept :
               result[i][KeyField(section)] \notin { remove[j] : j \in 1..Len(remove) }
          /\ (\A i \in 1..Len(defaults) : defaults[i][KeyField(section)] \notin touched) =>
               SubSeq(result, 1, kept) = defaults

\* an overlay that removes and overrides "SQL DROP TABLE" and adds a rule with
\* that reason has been applied to defaults that hold such a rule: the result
\* is the added rule alone, or follows another default
C14_Witness ==
  /\ fn = "applyConfig" /\ pc = "done"
  /\ "patterns" \in DOMAIN heap[args.config]
  /\ FieldOr(heap[args.config].patterns, "remove", <<>>) = <<"SQL DROP TABLE">>
  /\ MapHas(FieldOr(heap[args.config].patterns, "override", <<>>), "SQL DROP TABLE")
  /\ Len(FieldOr(heap[args.config].patterns, "add", <<>>)) = 2
  /\ \E i \in 1..Len(heap[args.defaultPatterns]) :
       heap[args.defaultPatterns][i].reason = "SQL DROP TABLE"
  /\ \A i \in 1..(Len(heap[ret.patterns]) - 2) :
       heap[ret.patterns][i].reason # "SQL DROP TABLE"
  /\ heap[ret.patterns][Len(heap[ret.patterns])].reason = "SQL DROP TABLE"

\* C15: an applyConfig call leaves every object that existed before it (the
\* two default lists with their entries, the overlay) as it was; the two
\* lists it returns are new objects, different from each other; with an
\* empty overlay their contents equal the defaults.
C15_InputsUntouchedNewLists ==
  [][ (fn = "applyConfig" /\ pc = "start" /\ pc' = "done") =>
        /\ Len(heap') >= Len(heap)
        /\ \A i \in 1..Len(heap) : heap'[i] = heap[i]
        /\ ret'.patterns \in (Len(heap) + 1)..Len(heap')
        /\ ret'.paths \in (Len(heap) + 1)..Len(heap')
        /\ ret'.patterns # ret'.paths
        /\ heap[args.config] = <<>> =>
             /\ heap'[ret'.patterns] = heap[args.defaultPatterns]
             /\ heap'[ret'.paths] = heap[args.defaultPaths] ]_vars

\* applyConfig has returned for an empty overlay and non-empty defaults: the
\* returned pattern list is a fourth object with the contents of the first
C15_Witness ==
  /\ fn = "applyConfig" /\ pc = "done"
  /\ heap[args.config] = <<>>
  /\ Len(heap[args.defaultPatterns]) = MaxRules
  /\ ret.patterns > 3 /\ ret.paths > 3
  /\ heap[ret.patterns] = heap[args.defaultPatterns]

\* C16: the part of a returned list before the add entries is made of the
\* default entries the overlay does not remove, in their order: a pattern
\* whose reason has an override has that action and its own pattern and
\* reason; a path whose path has an override other than 'none' has that
\* level and its own path, one overridden with 'none' is left out; an entry
\* without an override is the default entry.
C16_OverrideReplacesActionOrLevel ==
  (fn = "applyConfig" /\ pc = "done") =>
    \A section \in {"patterns", "paths"} :
      LET defaults  == heap[IF section = "patterns" THEN args.defaultPatterns
                                                    ELSE args.defaultPaths]
          sec       == FieldOr(heap[args.config], section, <<>>)
          remove    == FieldOr(sec, "remove", <<>>)
          override  == FieldOr(sec, "override", <<>>)
          remaining == SelectSeq(defaults,
                         LAMBDA e : /\ e[KeyField(section)]
                                         \notin { remove[j] : j \in 1..Len(remove) }
                                    /\ ~(/\ section = "paths"
                                         /\ MapHas(override, e[KeyField(section)])
                                         /\ MapGet(override, e[KeyField(section)]) = "none"))
          kept      == SubSeq(heap[ret[section]], 1,
                              Len(heap[ret[section]]) - Len(FieldOr(sec, "add", <<>>)))
      IN  /\ Len(kept) = Len(remaining)
          /\ \A i \in 1..Len(remaining) :
               IF ~MapHas(override, remaining[i][KeyField(section)])
               THEN kept[i] = remaining[i]
               ELSE IF section = "patterns"
               THEN kept[i] = [pattern |-> remaining[i].pattern,
                               reason  |-> remaining[i].reason,
                               action  |-> MapGet(override, remaining[i].reason)]
               ELSE kept[i] = [path  |-> remaining[i].path,
                               level |-> MapGet(override, remaining[i].path)]

\* the overlay overrides "/etc/" with 'none' and the defaults hold "/etc/"
\* after another entry: the result is that other entry alone
C16_Witness ==
  /\ fn = "applyConfig" /\ pc = "done"
  /\ heap[args.config] = [paths |-> [override |-> <<[k |-> "/etc/", v |-> "none"]>>]]
  /\ Len(heap[args.defaultPaths]) = 2
  /\ heap[args.defaultPaths][1].path # "/etc/"
  /\ heap[args.defaultPaths][2].path = "/etc/"
  /\ heap[ret.paths] = <<heap[args.defaultPaths][1]>>

\* C17: in the merged overlay the add list of each section is the global add
\* list followed by the project add list, and the remove list the global
\* remove list followed by the project remove list (an absent list counting
\* as empty), so every key either source removes is in it.
C17_MergeConcatenatesAddAndRemove ==
  (fn = "mergeConfigs" /\ pc = "done") =>
    \A section \in {"patterns", "paths"} :
      LET g == FieldOr(args.global, section, <<>>)
          p == FieldOr(args.project, section, <<>>)
          m == FieldOr(ret, section, <<>>)
      IN  /\ FieldOr(m, "add", <<>>) = FieldOr(g, "add", <<>>) \o FieldOr(p, "add", <<>>)
          /\ FieldOr(m, "remove", <<>>)
               = FieldOr(g, "remove", <<>>) \o FieldOr(p, "remove", <<>>)
          /\ \A key \in { FieldOr(g, "remove", <<>>)[i] : i \in 1..Len(FieldOr(g, "remove", <<>>)) }
                          \cup { FieldOr(p, "remove", <<>>)[i] :
                                   i \in 1..Len(FieldOr(p, "remove", <<>>)) } :
               \E i \in 1..Len(FieldOr(m, "remove", <<>>)) : FieldOr(m, "remove", <<>>)[i] = key

\* both overlays add patterns and remove reasons, different ones, and the
\* merged lists start with the global entries
C17_Witness ==
  /\ fn = "mergeConfigs" /\ pc = "done"
  /\ "patterns" \in DOMAIN args.global /\ "patterns" \in DOMAIN args.project
  /\ Len(FieldOr(args.global.patterns, "add", <<>>)) = 2
  /\ Len(FieldOr(args.project.patterns, "add", <<>>)) = 1
  /\ FieldOr(args.global.patterns, "remove", <<>>) = <<"no such reason", "generic">>
  /\ FieldOr(args.project.patterns, "remove", <<>>) = <<"SQL DROP TABLE">>
  /\ Len(ret.patterns.add) = 3
  /\ ret.patterns.add[3] = args.project.patterns.add[1]
  /\ ret.patterns.remove = <<"no such reason", "generic", "SQL DROP TABLE">>

\* C18: in the merged overlay the override map of each section has exactly
\* the keys of the two sources, each once; a key the project sets has the
\* project's value, a key only the global overlay sets has the global value.
C18_MergeOverrideProjectWins ==
  (fn = "mergeConfigs" /\ pc = "done") =>
    \A section \in {"patterns", "paths"} :
      LET g == FieldOr(FieldOr(args.global, section, <<>>), "override", <<>>)
          p == FieldOr(FieldOr(args.project, section, <<>>), "override", <<>>)
          m == FieldOr(FieldOr(ret, section, <<>>), "override", <<>>)
      IN  /\ { m[i].k : i \in 1..Len(m) }
               = { g[i].k : i \in 1..Len(g) } \cup { p[i].k : i \in 1..Len(p) }
          /\ \A i, j \in 1..Len(m) : m[i].k = m[j].k => i = j
          /\ \A i \in 1..Len(m) :
               m[i].v = IF MapHas(p, m[i].k) THEN MapGet(p, m[i].k) ELSE MapGet(g, m[i].k)

\* the global overlay sets "generic" and "SQL DROP TABLE", the project
\* overlay "SQL DROP TABLE" to another action: the merged map keeps the
\* global "generic" and has the project's "SQL DROP TABLE"
C18_Witness ==
  /\ fn = "mergeConfigs" /\ pc = "done"
  /\ args.global = [patterns |-> [override |-> <<[k |-> "generic", v |-> "ask"],
                                                 [k |-> "SQL DROP TABLE", v |-> "block"]>>]]
  /\ args.project = [patterns |-> [override |-> <<[k |-> "SQL DROP TABLE", v |-> "ask"]>>]]
  /\ ret = [patterns |-> [override |-> <<[k |-> "generic", v |-> "ask"],
                                         [k |-> "SQL DROP TABLE", v |-> "ask"]>>]]

\* C19: a patterns.add entry whose pattern does not compile as a regular
\* expression is not in the overlay validateConfig or loadConfig returns, and
\* matchPattern on the effective list of a loaded overlay never throws.
C19_UncompilablePatternRejected ==
  /\ (fn \in {"validateConfig", "loadConfig"} /\ pc = "done") =>
       \A i \in 1..Len(FieldOr(FieldOr(ret.config, "patterns", <<>>), "add", <<>>)) :
         RegExpCompiles(ret.config.patterns.add[i].pattern)
  /\ (fn = "loadConfig" /\ pc = "done") =>
       \A command \in {"ls /tmp", "my-cmd --force"} :
         "throw" \notin
           DOMAIN matchPattern(command, listsOf(appliedToDefaults(ret.config)).patterns)

\* C20: for a section whose add is an array, validateConfig stores the
\* elements isValidPattern / isValidProtectedPath accepts, in their order,
\* and pushes one warning for each other element, naming its index; the
\* remove and override fields it stores and its other warnings are those of
\* the same file without the add array.
C20_InvalidAddElementsDroppedOneByOne ==
  (fn = "validateConfig" /\ pc = "done" /\ isObject(args.raw)) =>
    \A section \in {"patterns", "paths"} :
      (isObject(Get(args.raw, section)) /\ isArray(Get(Get(args.raw, section), "add"))) =>
        LET add      == Get(Get(args.raw, section), "add").arr
            ok(v)    == IF section = "patterns" THEN isValidPattern(v)
                                                ELSE isValidProtectedPath(v)
            stored   == FieldOr(ret.config[section], "add", <<>>)
            valid    == SelectSeq(add, ok)
            addWarns == SelectSeq(ret.warnings,
                                  LAMBDA w : Includes(w, "\"" \o section \o ".add["))
            without  == validateConfig(
                          JObj(<<[k |-> section,
                                  v |-> JObj(SelectSeq(Get(args.raw, section).obj,
                                                       LAMBDA e : e.k # "add"))]>>),
                          args.source)
        IN  /\ Len(stored) = Len(valid)
            /\ \A i \in 1..Len(valid) :
                 stored[i] = IF section = "patterns" THEN AsPattern(valid[i])
                                                     ELSE AsProtectedPath(valid[i])
            /\ Len(addWarns) = Cardinality({ i \in 1..Len(add) : ~ok(add[i]) })
            /\ \A i \in 1..Len(add) :
                 ~ok(add[i]) =>
                   \E j \in 1..Len(addWarns) :
                     Includes(addWarns[j],
                              "\"" \o section \o ".add[" \o ToStr(i - 1) \o "]\"")
            /\ \A field \in {"remove", "override"} :
                 /\ field \in DOMAIN ret.config[section]
                      <=> field \in DOMAIN without.config[section]
                 /\ field \in DOMAIN ret.config[section] =>
                      ret.config[section][field] = without.config[section][field]
            /\ SelectSeq(ret.warnings,
                         LAMBDA w : ~Includes(w, "\"" \o section \o ".add["))
                 = without.warnings

\* a patterns.add array with an invalid element between two valid ones, in a
\* section that also has remove and override: the two valid ones are stored
\* in order, one add warning is pushed, remove and override are stored
C20_Witness ==
  /\ fn = "validateConfig" /\ pc = "done"
  /\ isObject(args.raw) /\ isObject(Get(args.raw, "patterns"))
  /\ isArray(Get(Get(args.raw, "patterns"), "add"))
  /\ Len(Get(Get(args.raw, "patterns"), "add").arr) = 3
  /\ Get(Get(args.raw, "patterns"), "add").arr[2] = JStr("not an object")
  /\ FieldOr(ret.config.patterns, "add", <<>>) =
       <<[pattern |-> "new-cmd", reason |-> "New", action |-> "ask"],
         [pattern |-> "my-cmd", reason |-> "Custom", action |-> "block"]>>
  /\ FieldOr(ret.config.patterns, "remove", <<>>) = <<"SQL DROP TABLE">>
  /\ MapHas(FieldOr(ret.config.patterns, "override", <<>>), "valid reason")
  /\ Len(ret.warnings) = 3

\* C21: for a section whose override is an object, validateConfig stores the
\* entries whose value is a valid action (patterns) or level (paths), in
\* their order, and pushes for each other entry one warning that holds the
\* key and the value; when no entry is valid no override map is stored and,
\* the map not being empty, at least one warning is pushed.
C21_InvalidOverrideValuesDropped ==
  (fn = "validateConfig" /\ pc = "done" /\ isObject(args.raw)) =>
    \A section \in {"patterns", "paths"} :
      (/\ isObject(Get(args.raw, section))
       /\ isObject(Get(Get(args.raw, section), "override"))) =>
        LET entries == Get(Get(args.raw, section), "override").obj
            allowed == IF section = "patterns" THEN {"block", "ask"}
                       ELSE {"zeroAccess", "readOnly", "noDelete", "none"}
            ok(e)   == isString(e.v) /\ e.v.str \in allowed
            valid   == SelectSeq(entries, ok)
            stored  == FieldOr(ret.config[section], "override", <<>>)
            ovWarns == SelectSeq(ret.warnings,
                                 LAMBDA w : Includes(w, "\"" \o section \o ".override["))
        IN  /\ Len(stored) = Len(valid)
            /\ \A i \in 1..Len(valid) : stored[i] = [k |-> valid[i].k, v |-> valid[i].v.str]
            /\ Len(ovWarns) = Len(entries) - Len(valid)
            /\ \A i \in 1..Len(entries) :
                 ~ok(entries[i]) =>
                   \E j \in 1..Len(ovWarns) :
                     /\ Includes(ovWarns[j], JsonStringify(entries[i].k))
                     /\ Includes(ovWarns[j], "\"" \o StringOf(entries[i].v) \o "\"")
            /\ (Len(valid) = 0) => "override" \notin DOMAIN ret.config[section]
            /\ (Len(valid) = 0 /\ Len(entries) > 0) => Len(ret.warnings) >= 1

\* a file whose patterns.override holds 'deny' and 'none' and whose
\* paths.override holds 'block': no override is stored, three warnings
C21_Witness ==
  /\ fn = "validateConfig" /\ pc = "done"
  /\ isObject(args.raw) /\ isObject(Get(args.raw, "patterns"))
  /\ isObject(Get(Get(args.raw, "patterns"), "override"))
  /\ Get(Get(Get(args.raw, "patterns"), "override"), "SQL DROP TABLE") = JStr("deny")
  /\ ret.config = [patterns |-> <<>>, paths |-> <<>>]
  /\ Len(ret.warnings) = 3
  /\ Includes(ret.warnings[1], "\"deny\"")

\* C22: a source whose file parses as JSON to something that is not an object
\* (a string, a number, an array, null) contributes the empty overlay and
\* exactly one warning, which starts with the path of that file; an unknown
\* top-level key of an object gives one warning naming it, "$schema" none.
C22_NonObjectOneWarning ==
  /\ (fn = "loadConfig" /\ pc = "done") =>
       \A path \in {globalConfig(HOME), projectConfig(args.directory)} :
         (path \in DOMAIN files /\ files[path] # Unparsable /\ ~isObject(files[path])) =>
           /\ Len(SelectSeq(ret.warnings,
                            LAMBDA w : SubSeq(w, 1, Len(path) + 1) = path \o ":")) = 1
           /\ ret.config =
                loadConfig(HOME, [q \in (DOMAIN files) \ {path} |-> files[q]],
                           args.directory).config
  /\ (fn = "validateConfig" /\ pc = "done" /\ isObject(args.raw)) =>
       \A i \in 1..Len(args.raw.obj) :
         Len(SelectSeq(ret.warnings,
                       LAMBDA w : Includes(w, "unknown key \"" \o args.raw.obj[i].k \o "\"")))
           = IF args.raw.obj[i].k \in {"patterns", "paths", "$schema"} THEN 0 ELSE 1

\* C23: a source whose file is absent or does not parse as JSON contributes
\* nothing: loadConfig returns the overlay and the warnings validateConfig
\* gives for the other source's file alone, and the empty config without
\* warnings when neither source has a file that parses.
C23_AbsentOrUnparsableIsEmpty ==
  (fn = "loadConfig" /\ pc = "done") =>
    LET gone(path) == path \notin DOMAIN files \/ files[path] = Unparsable
        g == globalConfig(HOME)
        p == projectConfig(args.directory)
    IN  /\ (gone(g) /\ gone(p)) => ret = [config |-> <<>>, warnings |-> <<>>]
        /\ (gone(g) /\ ~gone(p) /\ files[p] # NULL) =>
             /\ ret.warnings = validateConfig(files[p], p).warnings
             /\ ret.config = mergeConfigs(<<>>, validateConfig(files[p], p).config)
        /\ (gone(p) /\ ~gone(g) /\ files[g] # NULL) =>
             /\ ret.warnings = validateConfig(files[g], g).warnings
             /\ ret.config = mergeConfigs(validateConfig(files[g], g).config, <<>>)

\* the global file does not parse and the project file adds a pattern next to
\* an element it has to drop: the overlay holds the pattern, the warning is
\* the project file's
C23_Witness ==
  /\ fn = "loadConfig" /\ pc = "done"
  /\ globalConfig(HOME) \in DOMAIN files
  /\ files[globalConfig(HOME)] = Unparsable
  /\ projectConfig(args.directory) \in DOMAIN files
  /\ "patterns" \in DOMAIN ret.config
  /\ Len(FieldOr(ret.config.patterns, "add", <<>>)) = 2
  /\ Len(ret.warnings) = 1
  /\ Includes(ret.warnings[1], projectConfig(args.directory))

\* C24: every entry stashed in pendingAsks is eventually removed, whichever
\* hooks the host goes on to invoke.
C24_PendingAsksDoNotLeak ==
  \A id \in CallIDs : (id \in DOMAIN pendingAsks) ~> (id \notin DOMAIN pendingAsks)

\* C25: a permission.ask that finds an entry under its callID forces the
\* status to 'ask' and removes exactly that entry in the same step, so the
\* next permission.ask with that callID finds none; a permission.ask whose
\* callID is missing or has no entry leaves the status it was given and the
\* map as they are.
C25_SingleConsume ==
  [][ (call'.hook = "permission.ask") =>
        IF call'.callID # "" /\ call'.callID \in DOMAIN pendingAsks
        THEN /\ call'.status = "ask"
             /\ DOMAIN pendingAsks' = (DOMAIN pendingAsks) \ {call'.callID}
             /\ \A id \in DOMAIN pendingAsks' : pendingAsks'[id] = pendingAsks[id]
        ELSE /\ call'.status = call'.statusIn
             /\ pendingAsks' = pendingAsks ]_vars

\* a permission.ask with callID c1 has found no entry: the status 'allow' it
\* was given stands and the entry of c2 is still in the map
C25_Witness ==
  /\ call.hook = "permission.ask"
  /\ call.callID = "c1"
  /\ call.statusIn = "allow" /\ call.status = "allow"
  /\ DOMAIN pendingAsks = {"c2"}

\* C26: a glob rule with one * matches a file path exactly when the final
\* segment of the path (trailing slashes trimmed) starts with the text before
\* the * and ends, without overlap, with the text after it, every character
\* of that text standing for itself; checkPathProtection on a list of that
\* one rule returns the rule in that case and null otherwise.
C26_GlobMatchesFinalSegmentLiterally ==
  (/\ fn = "checkPathProtection" /\ pc = "done"
   /\ Len(args.protectedPaths) = 1
   /\ IndexOf(args.protectedPaths[1].path, "*") # 0
   /\ IndexOf(args.protectedPaths[1].path, "*") = LastIndexOf(args.protectedPaths[1].path, "*")) =>
    LET glob    == args.protectedPaths[1].path
        star    == IndexOf(glob, "*")
        before  == SubSeq(glob, 1, star - 1)
        after   == SubSeq(glob, star + 1, Len(glob))
        slashes == { i \in 1..Len(args.filePath) : At(args.filePath, i) # "/" }
        end     == IF slashes = {} THEN 0 ELSE CHOOSE i \in slashes : \A j \in slashes : j <= i
        trimmed == SubSeq(args.filePath, 1, end)
        segment == SubSeq(trimmed, LastIndexOf(trimmed, "/") + 1, Len(trimmed))
    IN  (ret = args.protectedPaths[1])
          <=> /\ Len(segment) >= Len(before) + Len(after)
              /\ SubSeq(segment, 1, Len(before)) = before
              /\ SubSeq(segment, Len(segment) - Len(after) + 1, Len(segment)) = after

\* C27: expandHome replaces a ~ only when it is the first character of the
\* path, by HOME (the empty string when HOME is unset), and returns a path
\* that does not start with ~ as it is.
C27_ExpandHomeLeadingTildeOnly ==
  (fn = "expandHome" /\ pc = "done") =>
    ret = IF Len(args.p) > 0 /\ At(args.p, 1) = "~"
          THEN HOME \o SubSeq(args.p, 2, Len(args.p))
          ELSE args.p

\* C28: in each list applyConfig returns, the entries that come from the
\* defaults are the surviving defaults (not removed, not overridden with
\* 'none') in the order the defaults have them, and the overlay's add
\* entries come after all of them in the order the overlay has them.
C28_OrderPreserved ==
  (fn = "applyConfig" /\ pc = "done") =>
    \A section \in {"patterns", "paths"} :
      LET defaults == heap[IF section = "patterns" THEN args.defaultPatterns
                                                   ELSE args.defaultPaths]
          result   == heap[ret[section]]
          sec      == FieldOr(heap[args.config], section, <<>>)
          add      == FieldOr(sec, "add", <<>>)
          remove   == FieldOr(sec, "remove", <<>>)
          override == FieldOr(sec, "override", <<>>)
          gone(e)  == \/ \E j \in 1..Len(remove) : remove[j] = e[KeyField(section)]
                      \/ \E j \in 1..Len(override) :
                           /\ override[j].k = e[KeyField(section)]
                           /\ override[j].v = "none"
                           /\ section = "paths"
          alive    == { i \in 1..Len(defaults) : ~gone(defaults[i]) }
          rank(i)  == Cardinality({ j \in alive : j <= i })
      IN  /\ Len(result) = Cardinality(alive) + Len(add)
          /\ \A i \in alive :
               /\ result[rank(i)][KeyField(section)] = defaults[i][KeyField(section)]
               /\ section = "patterns" => result[rank(i)].pattern = defaults[i].pattern
          /\ \A i \in 1..Len(add) : result[Cardinality(alive) + i] = add[i]

\* two different default patterns survive, the second with an overridden
\* action, and two patterns are added: the result has the defaults first, in
\* their order, then the added ones in theirs
C28_Witness ==
  /\ fn = "applyConfig" /\ pc = "done"
  /\ Len(heap[args.defaultPatterns]) = 2
  /\ heap[args.defaultPatterns][1].reason = "generic"
  /\ heap[args.defaultPatterns][2].reason = "SQL DROP TABLE"
  /\ "patterns" \in DOMAIN heap[args.config]
  /\ "remove" \notin DOMAIN heap[args.config].patterns
  /\ FieldOr(heap[args.config].patterns, "override", <<>>)
       = <<[k |-> "SQL DROP TABLE", v |-> "ask"]>>
  /\ Len(FieldOr(heap[args.config].patterns, "add", <<>>)) = 2
  /\ Len(heap[ret.patterns]) = 4
  /\ heap[ret.patterns][1] = heap[args.defaultPatterns][1]
  /\ heap[ret.patterns][2].reason = "SQL DROP TABLE"
  /\ heap[ret.patterns][2].action = "ask"
  /\ heap[ret.patterns][3].reason = "New"

\* C29: every add entry of the overlay is in the returned list as the
\* overlay has it, at the end, also when the overlay's remove list or
\* override map (a path override of 'none' included) names its key: remove
\* and override act on the defaults only.
C29_AddEntriesUntouched ==
  (fn = "applyConfig" /\ pc = "done") =>
    \A section \in {"patterns", "paths"} :
      LET result == heap[ret[section]]
          sec    == FieldOr(heap[args.config], section, <<>>)
          add    == FieldOr(sec, "add", <<>>)
          fromDefaults == Len(result) - Len(add)
      IN  /\ fromDefaults >= 0
          /\ fromDefaults =
               Len(SelectSeq(heap[IF section = "patterns" THEN args.defaultPatterns
                                                           ELSE args.defaultPaths],
                     LAMBDA e :
                       /\ \A j \in 1..Len(FieldOr(sec, "remove", <<>>)) :
                            sec.remove[j] # e[KeyField(section)]
                       /\ ~(/\ section = "paths"
                            /\ MapHas(FieldOr(sec, "override", <<>>), e[KeyField(section)])
                            /\ MapGet(FieldOr(sec, "override", <<>>), e[KeyField(section)])
                                 = "none")))
          /\ \A i \in 1..Len(add) : result[fromDefaults + i] = add[i]
          /\ section \notin DOMAIN heap[args.config] => Len(add) = 0

\* the overlay overrides "/etc/" with 'none' and adds a "/etc/" rule of level
\* noDelete; the defaults hold "/etc/": the default rule is gone and the
\* added one ends the result with its own level
C29_Witness ==
  /\ fn = "applyConfig" /\ pc = "done"
  /\ "paths" \in DOMAIN heap[args.config]
  /\ FieldOr(heap[args.config].paths, "override", <<>>) = <<[k |-> "/etc/", v |-> "none"]>>
  /\ Len(FieldOr(heap[args.config].paths, "add", <<>>)) = 2
  /\ \E i \in 1..Len(heap[args.defaultPaths]) : heap[args.defaultPaths][i].path = "/etc/"
  /\ Len(heap[ret.paths]) = Len(heap[args.defaultPaths]) + 1
  /\ heap[ret.paths][Len(heap[ret.paths])] = [path |-> "/etc/", level |-> "noDelete"]

\* C30: whatever the configuration files hold, the lists applyConfig makes of
\* the validated (and merged) overlay and the built-in defaults hold only
\* patterns with action block or ask and only paths with level zeroAccess,
\* readOnly or noDelete; 'none' is never the level of an effective rule.
C30_EffectiveRulesValid ==
  (fn \in {"validateConfig", "loadConfig"} /\ pc = "done") =>
    LET eff == listsOf(appliedToDefaults(IF fn = "loadConfig" THEN ret.config
                                         ELSE mergeConfigs(<<>>, ret.config)))
    IN  /\ \A i \in 1..Len(eff.patterns) : eff.patterns[i].action \in {"block", "ask"}
        /\ \A i \in 1..Len(eff.paths) :
             eff.paths[i].level \in {"zeroAccess", "readOnly", "noDelete"}

\* a file whose paths.add holds a rule of level 'none' next to a valid one:
\* the overlay keeps the valid rule only and warns about the other
C30_Witness ==
  /\ fn = "validateConfig" /\ pc = "done"
  /\ isObject(args.raw) /\ isObject(Get(args.raw, "paths"))
  /\ isArray(Get(Get(args.raw, "paths"), "add"))
  /\ \E i \in 1..Len(Get(Get(args.raw, "paths"), "add").arr) :
       Get(Get(args.raw, "paths"), "add").arr[i]
         = JObj(<<[k |-> "path", v |-> JStr("tmp/")], [k |-> "level", v |-> JStr("none")]>>)
  /\ "paths" \in DOMAIN ret.config
  /\ FieldOr(ret.config.paths, "add", <<>>) = <<[path |-> "secrets/", level |-> "zeroAccess"]>>
  /\ Len(ret.warnings) >= 1

====
